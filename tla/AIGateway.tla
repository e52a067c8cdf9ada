----------------------------- MODULE AIGateway -----------------------------
(***************************************************************************)
(* The AI gateway (apps/ai/gateway.py): routing by policy and budget,      *)
(* retries, fallback and the circuit breaker.                              *)
(*                                                                         *)
(* Requests run in threads of one server and share a cache without locks:  *)
(* every read and every write of it is a step of its own, and what was     *)
(* read is used later.  Spending is the sum of the usage log; a request    *)
(* looks at it once, before its first call, and adds to it after its last. *)
(*                                                                         *)
(* A request tries its providers in a fixed order, so the chain is the set *)
(* of those that are left.  Time is counted in ticks: all keys of the      *)
(* cache grow older together.  A failure count is never compared with more *)
(* than the threshold and stops there.                                     *)
(***************************************************************************)
EXTENDS Integers, FiniteSets

CONSTANTS Client,              \* requests that can be in progress together
          Provider, Local,     \* configured providers, and the local ones
          Rank,                \* [Provider -> Nat], the order of their keys
          Policy,              \* AI["ROUTING_POLICY"]
          SensitiveLocalOnly,
          MaxRetries, Threshold, Cooldown,
          Limit,               \* [Period -> budget], 0 for none
          MaxCost,             \* bound: what one answer costs at most
          NoProvider, Idle

Period == {"daily", "monthly"}

ASSUME ProvidersAssumption ==
    /\ IsFiniteSet(Provider) /\ Provider # {} /\ Local \subseteq Provider
    /\ NoProvider \notin Provider
    /\ Rank \in [Provider -> Nat]
    /\ \A p, q \in Provider : Rank[p] = Rank[q] => p = q

ASSUME ClientsAssumption == IsFiniteSet(Client)

ASSUME SettingsAssumption ==
    /\ Policy \in {"local_first", "cloud_first", "local_only", "cloud_only"}
    /\ SensitiveLocalOnly \in BOOLEAN
    /\ MaxRetries \in Nat /\ MaxCost \in Nat
    /\ Threshold \in Nat \ {0} /\ Cooldown \in Nat \ {0}
    /\ Limit \in [Period -> Nat]

VARIABLES
    failures,   \* [Provider -> "ai:failures:<key>", 0 if absent]
    failuresFor,\* [Provider -> ticks until that key expires]
    openFor,    \* [Provider -> ticks until "ai:breaker:<key>" expires]
    spent,      \* [Period -> AIUsageLog.spent_today, spent_this_month]
    job         \* [Client -> its request]

cache == <<failures, failuresFor, openFor>>
vars == <<cache, spent, job>>

(* The providers still to be looked at by build_chain, those that ask has
   still to try, the attempt, whether the last failure may be retried, and
   the number that is about to be written: a failure count or a cost. *)
Job == [kind : {"ask", "stream", "reset"}, sensitive : BOOLEAN,
        preferred : Provider \cup {NoProvider},
        pc : {"route", "call", "count", "trip", "clear", "close", "log"},
        todo : SUBSET Provider, chain : SUBSET Provider,
        attempt : 0 .. MaxRetries, retry : BOOLEAN, number : Nat]

TypeOK ==
    /\ failures \in [Provider -> 0 .. Threshold]
    /\ failuresFor \in [Provider -> 0 .. 2 * Cooldown]
    /\ openFor \in [Provider -> 0 .. Cooldown]
    /\ spent \in [Period -> Nat]
    /\ job \in [Client -> Job \cup {Idle}]

Init ==
    /\ failures = [p \in Provider |-> 0]
    /\ failuresFor = [p \in Provider |-> 0]
    /\ openFor = [p \in Provider |-> 0]
    /\ spent = [b \in Period |-> 0]
    /\ job = [c \in Client |-> Idle]

-----------------------------------------------------------------------------
(* Routing *)

(* Mutant: a budget that is just used up still counts as free. *)
WithinBudget == \A b \in Period : Limit[b] = 0 \/ spent[b] <= Limit[b]

CanUseCloud == \A b \in Period : Limit[b] = 0 \/ spent[b] < Limit[b]

IsCircuitOpen(p) == openFor[p] > 0

(* Mutant: privacy is forgotten. *)
RoutedByBudget(S, sensitive) ==
    IF Policy = "local_only" \/ ~CanUseCloud THEN S \cap Local ELSE S

(* The providers of S that policy, budget and privacy allow. *)
Routed(S, sensitive) ==
    LET forceLocal == \/ Policy = "local_only"
                      \/ sensitive /\ SensitiveLocalOnly
                      \/ ~CanUseCloud
    IN  CASE forceLocal -> S \cap Local
          [] ~forceLocal /\ Policy = "cloud_only" -> S \ Local
          [] OTHER -> S

(* The preferred provider is tried first, then the local ones (or the cloud),
   in the order of their keys. *)
FirstOf(S, preferred) ==
    LET favoured == IF Policy = "cloud_first" THEN S \ Local ELSE S \cap Local
        pool == IF favoured = {} THEN S ELSE favoured
    IN  IF preferred \in S THEN preferred
        ELSE CHOOSE p \in pool : \A q \in pool : Rank[p] <= Rank[q]

Current(j) == FirstOf(j.chain, j.preferred)

(* A request begins: able are the providers with a model for its task.  With
   none allowed it ends at once (AIUnavailable), which changes nothing. *)
Begin(c, kind, sensitive, preferred, able) ==
    /\ job[c] = Idle
    /\ Routed(able, sensitive) # {}
    /\ job' = [job EXCEPT ![c] =
          [kind |-> kind, sensitive |-> sensitive, preferred |-> preferred,
           pc |-> "route", todo |-> Routed(able, sensitive), chain |-> {},
           attempt |-> 0, retry |-> FALSE, number |-> 0]]
    /\ UNCHANGED <<cache, spent>>

(* Mutant: build_chain does not ask for the breakers. *)
SkipCircuitCheck(c) ==
    /\ job[c] # Idle /\ job[c].pc = "route"
    /\ job' = [job EXCEPT ![c] = [@ EXCEPT !.pc = "call", !.todo = {}, !.chain = job[c].todo]]
    /\ UNCHANGED <<cache, spent>>

(* build_chain looks at one breaker after the other.  A stream uses the first
   provider only. *)
CheckCircuit(c) ==
    LET j == job[c]
        p == FirstOf(j.todo, j.preferred)
        rest == j.todo \ {p}
        chain == IF IsCircuitOpen(p) THEN j.chain ELSE j.chain \cup {p}
    IN  /\ j # Idle /\ j.pc = "route"
        /\ job' = [job EXCEPT ![c] =
              IF rest # {} THEN [j EXCEPT !.todo = rest, !.chain = chain]
              ELSE IF chain = {} THEN Idle
              ELSE [j EXCEPT !.pc = "call", !.todo = {},
                             !.chain = IF j.kind = "stream"
                                       THEN {FirstOf(chain, j.preferred)}
                                       ELSE chain]]
        /\ UNCHANGED <<cache, spent>>

-----------------------------------------------------------------------------
(* Calls *)

(* What an answer, or the text of a broken stream, may cost.  Local models
   have no price. *)
Costs(p) == IF p \in Local THEN {0} ELSE 0 .. MaxCost

NextProvider(j) ==
    LET rest == j.chain \ {Current(j)}
    IN  IF rest = {} THEN Idle
        ELSE [j EXCEPT !.pc = "call", !.chain = rest, !.attempt = 0,
                       !.retry = FALSE, !.number = 0]

(* Mutants: one retry too many, and a retry that is not counted. *)
AfterFailureLate(j) ==
    IF j.retry /\ j.attempt <= MaxRetries
    THEN {[j EXCEPT !.pc = "call", !.attempt = @ + 1, !.retry = FALSE, !.number = 0]}
    ELSE {NextProvider(j)}
AfterFailureAgain(j) ==
    IF j.retry THEN {[j EXCEPT !.pc = "call", !.retry = FALSE, !.number = 0]} ELSE {NextProvider(j)}

(* What a request does after a failure was recorded.  A stream logs what it
   has sent and ends. *)
AfterFailure(j) ==
    CASE j.kind = "stream" -> {[j EXCEPT !.pc = "log", !.number = n] : n \in Costs(Current(j))}
      [] j.kind # "stream" /\ j.retry /\ j.attempt < MaxRetries ->
            {[j EXCEPT !.pc = "call", !.attempt = @ + 1, !.retry = FALSE, !.number = 0]}
      [] OTHER -> {NextProvider(j)}

Answer(c) ==
    /\ job[c] # Idle /\ job[c].pc = "call"
    /\ \E n \in Costs(Current(job[c])) :
          job' = [job EXCEPT ![c] = [@ EXCEPT !.pc = "clear", !.number = n]]
    /\ UNCHANGED <<cache, spent>>

(* The provider times out, cannot be reached, limits its rate (retry), or
   answers with another error.  record_failure reads the count. *)
Fail(c, retry) ==
    LET p == Current(job[c])
        count == IF failures[p] < Threshold THEN failures[p] + 1 ELSE Threshold
    IN  /\ job[c] # Idle /\ job[c].pc = "call"
        /\ job' = [job EXCEPT ![c] =
              [@ EXCEPT !.pc = "count", !.retry = retry, !.number = count]]
        /\ UNCHANGED <<cache, spent>>

(* An invalid key is no failure of the provider: the next one is tried. *)
NotConfigured(c) ==
    /\ job[c] # Idle /\ job[c].pc = "call" /\ job[c].kind = "ask"
    /\ job' = [job EXCEPT ![c] = NextProvider(@)]
    /\ UNCHANGED <<cache, spent>>

-----------------------------------------------------------------------------
(* The circuit breaker *)

(* record_failure writes the count it has read, plus one ... *)
WriteCount(c) ==
    LET j == job[c]
        p == Current(j)
    IN  /\ j # Idle /\ j.pc = "count"
        /\ failures' = [failures EXCEPT ![p] = j.number]
        /\ failuresFor' = [failuresFor EXCEPT ![p] = 2 * Cooldown]
        /\ \E next \in IF j.number >= Threshold THEN {[j EXCEPT !.pc = "trip"]}
                       ELSE AfterFailure(j) :
              job' = [job EXCEPT ![c] = next]
        /\ UNCHANGED <<openFor, spent>>

(* ... and opens the circuit if that is enough. *)
Trip(c) ==
    LET j == job[c]
    IN  /\ j # Idle /\ j.pc = "trip"
        /\ openFor' = [openFor EXCEPT ![Current(j)] = Cooldown]
        /\ \E next \in AfterFailure(j) : job' = [job EXCEPT ![c] = next]
        /\ UNCHANGED <<failures, failuresFor, spent>>

(* record_success deletes the count ... *)
ClearFailures(c) ==
    LET p == Current(job[c])
    IN  /\ job[c] # Idle /\ job[c].pc = "clear"
        /\ failures' = [failures EXCEPT ![p] = 0]
        /\ failuresFor' = [failuresFor EXCEPT ![p] = 0]
        /\ job' = [job EXCEPT ![c].pc = "close"]
        /\ UNCHANGED <<openFor, spent>>

(* ... and then the breaker.  reset_all_breakers does both for each provider. *)
CloseCircuit(c) ==
    LET j == job[c]
        p == Current(j)
    IN  /\ j # Idle /\ j.pc = "close"
        /\ openFor' = [openFor EXCEPT ![p] = 0]
        /\ job' = [job EXCEPT ![c] =
              IF j.kind # "reset" THEN [j EXCEPT !.pc = "log"]
              ELSE IF j.chain = {p} THEN Idle
              ELSE [j EXCEPT !.pc = "clear", !.chain = @ \ {p}]]
        /\ UNCHANGED <<failures, failuresFor, spent>>

ResetAllBreakers(c) ==
    /\ job[c] = Idle
    /\ job' = [job EXCEPT ![c] =
          [kind |-> "reset", sensitive |-> FALSE, preferred |-> NoProvider,
           pc |-> "clear", todo |-> {}, chain |-> Provider,
           attempt |-> 0, retry |-> FALSE, number |-> 0]]
    /\ UNCHANGED <<cache, spent>>

-----------------------------------------------------------------------------
(* Accounting and the passing of time *)

(* The usage is logged with its cost and the request ends. *)
Log(c) ==
    /\ job[c] # Idle /\ job[c].pc = "log"
    /\ spent' = [b \in Period |-> spent[b] + job[c].number]
    /\ job' = [job EXCEPT ![c] = Idle]
    /\ UNCHANGED cache

NewPeriod(b) ==
    /\ spent' = IF b = "monthly" THEN [a \in Period |-> 0] ELSE [spent EXCEPT ![b] = 0]
    /\ spent' # spent
    /\ UNCHANGED <<cache, job>>

Older(ttl) == [p \in Provider |-> IF ttl[p] = 0 THEN 0 ELSE ttl[p] - 1]

(* An expired key reads as absent. *)
Tick ==
    /\ \E p \in Provider : failuresFor[p] > 0 \/ openFor[p] > 0
    /\ failuresFor' = Older(failuresFor)
    /\ openFor' = Older(openFor)
    /\ failures' = [p \in Provider |-> IF failuresFor'[p] = 0 THEN 0 ELSE failures[p]]
    /\ UNCHANGED <<spent, job>>

(* The cache is in the memory of the server and is lost with it, together
   with the requests in progress; the usage log is in the database. *)
Restart ==
    /\ failures' = [p \in Provider |-> 0]
    /\ failuresFor' = [p \in Provider |-> 0]
    /\ openFor' = [p \in Provider |-> 0]
    /\ job' = [c \in Client |-> Idle]
    /\ UNCHANGED spent

(* What the server does for a request in progress. *)
Step(c) ==
    \/ CheckCircuit(c)
    \/ Answer(c)
    \/ \E retry \in BOOLEAN : Fail(c, retry)
    \/ NotConfigured(c)
    \/ WriteCount(c)
    \/ Trip(c)
    \/ ClearFailures(c)
    \/ CloseCircuit(c)
    \/ Log(c)

Next ==
    \/ \E c \in Client : Step(c)
    \/ \E c \in Client, kind \in {"ask", "stream"}, sensitive \in BOOLEAN, able \in SUBSET Provider :
          \E preferred \in able \cup {NoProvider} : Begin(c, kind, sensitive, preferred, able)
    \/ \E c \in Client : ResetAllBreakers(c)
    \/ \E b \in Period : NewPeriod(b)
    \/ Tick
    \/ Restart

(* A provider answers or times out, a retry sleeps for a second at most, and
   time passes.  Nobody has to ask. *)
Fairness == (\A c \in Client : WF_vars(Step(c))) /\ WF_vars(Tick)

Spec == Init /\ [][Next]_vars /\ Fairness

-----------------------------------------------------------------------------
(* Properties *)

(* Requests that hold a cloud provider and can still add to the spending. *)
Spending == {c \in Client : job[c] # Idle /\ job[c].kind # "reset"
                               /\ ~((job[c].todo \cup job[c].chain) \subseteq Local)}

(* The budget is read before the calls and written after them, so it can be
   exceeded, but only by what the requests in progress cost: those that find
   it used up stay local (can_use_cloud, _log). *)
OverspendBounded ==
    \A b \in Period : Limit[b] > 0 =>
        spent[b] + MaxCost * Cardinality(Spending)
            < Limit[b] + MaxCost * Cardinality(Client)

(* Nothing sensitive is sent to the cloud, and nothing at all under local_only,
   whichever provider is preferred and whichever fail (build_chain, ask). *)
SensitiveStaysLocal ==
    \A c \in Spending : /\ Policy # "local_only"
                        /\ ~(SensitiveLocalOnly /\ job[c].sensitive)

(* Every request ends, with an answer or with AIUnavailable: retries and
   fallbacks come to an end whatever the other requests do to the breakers. *)
RequestsEnd == \A c \in Client : job[c] # Idle ~> job[c] = Idle

(* A provider is not shut out for ever: requests that go on failing on an
   older chain prolong its cooldown, but only those (record_failure,
   build_chain). *)
ProvidersReturn == \A p \in Provider : IsCircuitOpen(p) ~> ~IsCircuitOpen(p)
=============================================================================
