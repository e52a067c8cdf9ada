-------------------------- MODULE AIGateway_proofs --------------------------
(***************************************************************************)
(* Theorems about AIGateway, for any numbers of clients and providers, any *)
(* settings and any prices: the privacy of sensitive requests, how far the *)
(* budget can be exceeded, and how many steps a request can make.          *)
(***************************************************************************)
EXTENDS AIGateway, FiniteSetTheorems, WellFoundedInduction, TLAPS

(* What build_chain and ask know about a request in progress. *)
Sound(j) ==
    /\ j \in Job
    /\ j.pc = "route" => j.todo # {}
    /\ j.pc # "route" => j.chain # {} /\ j.todo = {}
    /\ j.kind = "reset" => j.pc \in {"clear", "close"}
    /\ j.pc \in {"count", "trip"} => j.number \in 0 .. Threshold
    /\ j.pc \in {"clear", "close", "log"} /\ j.kind # "reset" => j.number \in Costs(Current(j))

(* A request goes on with nothing that it did not have. *)
Narrower(new, old) ==
    /\ new.todo \cup new.chain \subseteq old.todo \cup old.chain
    /\ new.kind = old.kind
    /\ new.sensitive = old.sensitive

Continues(new, old) == new = Idle \/ (Sound(new) /\ Narrower(new, old))

JobsSound == job \in [Client -> Job \cup {Idle}] /\ \A c \in Client : job[c] = Idle \/ Sound(job[c])

-----------------------------------------------------------------------------
(* The order of the providers *)

(* A set of providers that is not empty has a first one, however large. *)
LEMMA FirstExists ==
    ASSUME NEW S \in SUBSET Provider, S # {}
    PROVE  \E p \in S : \A q \in S : Rank[p] <= Rank[q]
  <1> DEFINE ranks == {Rank[p] : p \in S}
             less == OpToRel(<, Nat)
  <1>1. ranks \subseteq Nat /\ ranks # {}
    BY ProvidersAssumption
  <1>2. PICK n \in ranks : \A k \in ranks : ~(<<k, n>> \in less)
    <2>1. IsWellFoundedOn(less, Nat)
      BY NatLessThanWellFounded
    <2> QED
      BY <1>1, <2>1, WFMin
  <1>3. \A k \in ranks : ~(k < n)
    BY <1>1, <1>2 DEF OpToRel
  <1>4. PICK p \in S : n = Rank[p]
    OBVIOUS
  <1>5. \A q \in S : Rank[q] \in ranks /\ Rank[q] \in Nat
    BY ProvidersAssumption
  <1>6. \A q \in S : Rank[p] <= Rank[q]
    <2> HIDE DEF ranks
    <2> QED
      BY <1>3, <1>4, <1>5
  <1> QED
    BY <1>6

LEMMA FirstOfIsMember ==
    ASSUME NEW S \in SUBSET Provider, S # {}, NEW preferred
    PROVE  FirstOf(S, preferred) \in S
  <1> DEFINE favoured == IF Policy = "cloud_first" THEN S \ Local ELSE S \cap Local
             pool == IF favoured = {} THEN S ELSE favoured
  <1>1. pool \in SUBSET S /\ pool # {}
    OBVIOUS
  <1>2. \E p \in pool : \A q \in pool : Rank[p] <= Rank[q]
    BY <1>1, FirstExists
  <1>3. (CHOOSE p \in pool : \A q \in pool : Rank[p] <= Rank[q]) \in pool
    BY <1>2
  <1> QED
    BY <1>1, <1>3 DEF FirstOf

LEMMA CurrentIsMember ==
    ASSUME NEW j \in Job, j.chain # {}
    PROVE  Current(j) \in j.chain /\ Current(j) \in Provider
  <1>1. j.chain \in SUBSET Provider
    BY DEF Job
  <1> QED
    BY <1>1, FirstOfIsMember DEF Current

-----------------------------------------------------------------------------
(* The steps of one request *)

LEMMA NextProviderContinues ==
    ASSUME NEW j \in Job, j.chain # {}, j.todo = {}, j.kind # "reset"
    PROVE  Continues(NextProvider(j), j)
  <1> DEFINE rest == j.chain \ {Current(j)}
             new == [j EXCEPT !.pc = "call", !.chain = rest, !.attempt = 0,
                              !.retry = FALSE, !.number = 0]
  <1>1. CASE rest = {}
    BY <1>1 DEF NextProvider, Continues
  <1>2. CASE rest # {}
    <2>1. new \in Job
      <3>1. rest \in SUBSET Provider /\ 0 \in 0 .. MaxRetries
        BY SettingsAssumption DEF Job
      <3> HIDE DEF rest
      <3> QED
        BY <3>1 DEF Job
    <2>2. Sound(new)
      BY <1>2, <2>1 DEF Sound, Job
    <2>3. Narrower(new, j)
      BY DEF Narrower, Job
    <2> QED
      BY <1>2, <2>2, <2>3 DEF NextProvider, Continues
  <1> QED
    BY <1>1, <1>2

LEMMA CostsAreNumbers == \A p : Costs(p) \subseteq Nat
  BY SettingsAssumption DEF Costs

LEMMA AfterFailureContinues ==
    ASSUME NEW j \in Job, j.chain # {}, j.todo = {}, j.kind # "reset", NEW new \in AfterFailure(j)
    PROVE  Continues(new, j)
  <1>1. CASE j.kind = "stream"
    <2>1. PICK n \in Costs(Current(j)) : new = [j EXCEPT !.pc = "log", !.number = n]
      BY <1>1 DEF AfterFailure
    <2>2. new \in Job
      BY <2>1, CostsAreNumbers DEF Job
    <2>3. Current(new) = Current(j)
      BY <2>1 DEF Current, Job
    <2>4. Sound(new)
      BY <1>1, <2>1, <2>2, <2>3 DEF Sound, Job
    <2> QED
      BY <2>1, <2>4 DEF Continues, Narrower, Job
  <1>2. CASE j.kind # "stream" /\ j.retry /\ j.attempt < MaxRetries
    <2>1. new = [j EXCEPT !.pc = "call", !.attempt = @ + 1, !.retry = FALSE, !.number = 0]
      BY <1>2 DEF AfterFailure
    <2>2. new \in Job
      <3>1. j.attempt + 1 \in 0 .. MaxRetries
        BY <1>2, SettingsAssumption DEF Job
      <3> QED
        BY <2>1, <3>1 DEF Job
    <2>3. Sound(new)
      BY <2>1, <2>2 DEF Sound, Job
    <2> QED
      BY <2>1, <2>3 DEF Continues, Narrower, Job
  <1>3. CASE ~(j.kind = "stream") /\ ~(j.kind # "stream" /\ j.retry /\ j.attempt < MaxRetries)
    <2>1. new = NextProvider(j)
      BY <1>3 DEF AfterFailure
    <2> QED
      BY <2>1, NextProviderContinues
  <1> QED
    BY <1>1, <1>2, <1>3

CacheTyped ==
    /\ failures \in [Provider -> 0 .. Threshold]
    /\ failuresFor \in [Provider -> 0 .. 2 * Cooldown]
    /\ openFor \in [Provider -> 0 .. Cooldown]

(* A step of the server takes the request further, or ends it. *)
LEMMA StepContinues ==
    ASSUME JobsSound, CacheTyped, NEW c \in Client, Step(c)
    PROVE  \E new : job' = [job EXCEPT ![c] = new] /\ Continues(new, job[c])
  <1> DEFINE j == job[c]
             Done(new) == job' = [job EXCEPT ![c] = new] /\ Continues(new, j)
  <1> USE SettingsAssumption
  <1>0. j # Idle
    BY DEF Step, CheckCircuit, Answer, Fail, NotConfigured, WriteCount, Trip,
           ClearFailures, CloseCircuit, Log
  <1>1. Sound(j) /\ j \in Job
    BY <1>0 DEF JobsSound, Sound
  <1>2. CASE CheckCircuit(c)
    <2> DEFINE p == FirstOf(j.todo, j.preferred)
               rest == j.todo \ {p}
               chain == IF IsCircuitOpen(p) THEN j.chain ELSE j.chain \cup {p}
               first == IF j.kind = "stream" THEN {FirstOf(chain, j.preferred)} ELSE chain
    <2>1. j.pc = "route"
      BY <1>2 DEF CheckCircuit
    <2>2. p \in j.todo /\ j.todo \in SUBSET Provider /\ j.chain \in SUBSET Provider
      BY <1>1, <2>1, FirstOfIsMember DEF Sound, Job
    <2>3. rest \in SUBSET j.todo /\ chain \in SUBSET (j.todo \cup j.chain)
          /\ chain \in SUBSET Provider /\ rest \in SUBSET Provider
      BY <2>2
    <2>4. chain # {} => first \in SUBSET chain /\ first # {}
      BY <2>3, FirstOfIsMember
    <2>5. \/ job' = [job EXCEPT ![c] = [j EXCEPT !.todo = rest, !.chain = chain]] /\ rest # {}
          \/ job' = [job EXCEPT ![c] = Idle]
          \/ job' = [job EXCEPT ![c] = [j EXCEPT !.pc = "call", !.todo = {}, !.chain = first]]
             /\ chain # {}
      BY <1>2 DEF CheckCircuit
    <2> HIDE DEF rest, chain, first
    <2>6. CASE job' = [job EXCEPT ![c] = [j EXCEPT !.todo = rest, !.chain = chain]] /\ rest # {}
      <3> DEFINE new == [j EXCEPT !.todo = rest, !.chain = chain]
      <3>1. new \in Job
        BY <1>1, <2>3 DEF Job
      <3>2. Sound(new)
        BY <1>1, <2>1, <2>6, <3>1 DEF Sound, Job
      <3>3. Narrower(new, j)
        BY <1>1, <2>3 DEF Narrower, Job
      <3> QED
        BY <2>6, <3>2, <3>3 DEF Continues
    <2>7. CASE job' = [job EXCEPT ![c] = Idle]
      BY <2>7 DEF Continues
    <2>8. CASE job' = [job EXCEPT ![c] = [j EXCEPT !.pc = "call", !.todo = {}, !.chain = first]]
               /\ chain # {}
      <3> DEFINE new == [j EXCEPT !.pc = "call", !.todo = {}, !.chain = first]
      <3>1. new \in Job
        BY <1>1, <2>3, <2>4, <2>8 DEF Job
      <3>2. Sound(new)
        BY <1>1, <2>1, <2>4, <2>8, <3>1 DEF Sound, Job
      <3>3. Narrower(new, j)
        BY <1>1, <2>3, <2>4, <2>8 DEF Narrower, Job
      <3> QED
        BY <2>8, <3>2, <3>3 DEF Continues
    <2> QED
      BY <2>5, <2>6, <2>7, <2>8
  <1>3. CASE Answer(c)
    <2>1. PICK n \in Costs(Current(j)) : job' = [job EXCEPT ![c] = [j EXCEPT !.pc = "clear", !.number = n]]
      BY <1>3 DEF Answer
    <2> DEFINE new == [j EXCEPT !.pc = "clear", !.number = n]
    <2>2. new \in Job
      BY <1>1, CostsAreNumbers DEF Job
    <2>3. Current(new) = Current(j)
      BY <1>1 DEF Current, Job
    <2>4. Sound(new) /\ Narrower(new, j)
      BY <1>1, <1>3, <2>2, <2>3 DEF Sound, Narrower, Job, Answer
    <2> QED
      BY <2>1, <2>4 DEF Continues
  <1>4. ASSUME NEW retry \in BOOLEAN, Fail(c, retry)
        PROVE  \E new : Done(new)
    <2> DEFINE p == Current(j)
               count == IF failures[p] < Threshold THEN failures[p] + 1 ELSE Threshold
               new == [j EXCEPT !.pc = "count", !.retry = retry, !.number = count]
    <2>1. j.pc = "call" /\ job' = [job EXCEPT ![c] = new]
      BY <1>4 DEF Fail
    <2>2. p \in Provider
      BY <1>1, <2>1, CurrentIsMember DEF Sound
    <2>3. count \in 0 .. Threshold /\ count \in Nat
      BY <2>2 DEF CacheTyped
    <2> HIDE DEF count
    <2>4. new \in Job
      BY <1>1, <2>3 DEF Job
    <2>5. Sound(new) /\ Narrower(new, j)
      BY <1>1, <2>1, <2>3, <2>4 DEF Sound, Narrower, Job
    <2> QED
      BY <2>1, <2>5 DEF Continues
  <1>5. CASE NotConfigured(c)
    <2>1. j.pc = "call" /\ j.kind = "ask" /\ job' = [job EXCEPT ![c] = NextProvider(j)]
      BY <1>5 DEF NotConfigured
    <2> QED
      BY <1>1, <2>1, NextProviderContinues DEF Sound
  <1>6. CASE WriteCount(c)
    <2>1. j.pc = "count" /\ \E next \in IF j.number >= Threshold THEN {[j EXCEPT !.pc = "trip"]}
                                        ELSE AfterFailure(j) :
              job' = [job EXCEPT ![c] = next]
      BY <1>6 DEF WriteCount
    <2>2. j.kind # "reset" /\ j.chain # {} /\ j.todo = {}
      BY <1>1, <2>1 DEF Sound
    <2> DEFINE new == [j EXCEPT !.pc = "trip"]
    <2>3. Sound(new) /\ Narrower(new, j)
      BY <1>1, <2>1 DEF Sound, Narrower, Job
    <2>4. Continues(new, j)
      BY <2>3 DEF Continues
    <2>5. \A next \in AfterFailure(j) : Continues(next, j)
      BY <1>1, <2>2, AfterFailureContinues
    <2> HIDE DEF new
    <2> QED
      BY <2>1, <2>4, <2>5 DEF new
  <1>7. CASE Trip(c)
    <2>1. j.pc = "trip" /\ \E next \in AfterFailure(j) : job' = [job EXCEPT ![c] = next]
      BY <1>7 DEF Trip
    <2>2. j.kind # "reset" /\ j.chain # {} /\ j.todo = {}
      BY <1>1, <2>1 DEF Sound
    <2> QED
      BY <1>1, <2>1, <2>2, AfterFailureContinues
  <1>8. CASE ClearFailures(c)
    <2> DEFINE new == [j EXCEPT !.pc = "close"]
    <2>1. j.pc = "clear" /\ job' = [job EXCEPT ![c] = new]
      BY <1>8 DEF ClearFailures
    <2>2. Current(new) = Current(j)
      BY <1>1 DEF Current, Job
    <2>3. Sound(new) /\ Narrower(new, j)
      BY <1>1, <2>1, <2>2 DEF Sound, Narrower, Job
    <2> QED
      BY <2>1, <2>3 DEF Continues
  <1>9. CASE CloseCircuit(c)
    <2> DEFINE p == Current(j)
               logged == [j EXCEPT !.pc = "log"]
               left == j.chain \ {p}
               other == [j EXCEPT !.pc = "clear", !.chain = left]
    <2>1. /\ j.pc = "close"
          /\ \/ j.kind # "reset" /\ job' = [job EXCEPT ![c] = logged]
             \/ job' = [job EXCEPT ![c] = Idle]
             \/ j.kind = "reset" /\ j.chain # {p} /\ job' = [job EXCEPT ![c] = other]
      BY <1>9 DEF CloseCircuit
    <2>2. Current(logged) = Current(j)
      BY <1>1 DEF Current, Job
    <2>3. j.kind # "reset" => Sound(logged) /\ Narrower(logged, j)
      BY <1>1, <2>1, <2>2 DEF Sound, Narrower, Job
    <2>4. left \in SUBSET Provider /\ left \subseteq j.chain /\ (j.chain # {p} => left # {})
      BY <1>1, <2>1 DEF Sound, Job
    <2> HIDE DEF left
    <2>5. other \in Job
      BY <1>1, <2>4 DEF Job
    <2>6. j.kind = "reset" /\ j.chain # {p} => Sound(other) /\ Narrower(other, j)
      BY <1>1, <2>4, <2>5 DEF Sound, Narrower, Job
    <2> HIDE DEF logged, other
    <2> QED
      BY <2>1, <2>3, <2>6 DEF Continues
  <1>10. CASE Log(c)
    BY <1>10 DEF Log, Continues
  <1> QED
    BY <1>2, <1>3, <1>4, <1>5, <1>6, <1>7, <1>8, <1>9, <1>10 DEF Step

(* The next job of each client, whatever the step. *)
LEMMA JobsStep ==
    ASSUME JobsSound, CacheTyped, [Next]_vars
    PROVE  JobsSound'
  <1> USE SettingsAssumption DEF JobsSound
  <1>1. ASSUME NEW c \in Client, Step(c)
        PROVE  JobsSound'
    <2>1. PICK new : job' = [job EXCEPT ![c] = new] /\ Continues(new, job[c])
      BY <1>1, StepContinues
    <2>2. new = Idle \/ (Sound(new) /\ new \in Job)
      BY <2>1 DEF Continues, Sound
    <2> QED
      BY <2>1, <2>2
  <1>2. ASSUME NEW c \in Client, NEW kind \in {"ask", "stream"}, NEW sensitive \in BOOLEAN,
               NEW able \in SUBSET Provider, NEW preferred \in able \cup {NoProvider},
               Begin(c, kind, sensitive, preferred, able)
        PROVE  JobsSound'
    <2> DEFINE todo == Routed(able, sensitive)
               new == [kind |-> kind, sensitive |-> sensitive, preferred |-> preferred,
                       pc |-> "route", todo |-> todo, chain |-> {},
                       attempt |-> 0, retry |-> FALSE, number |-> 0]
    <2>1. todo # {} /\ job' = [job EXCEPT ![c] = new]
      BY <1>2 DEF Begin
    <2>2. todo \in SUBSET Provider
      BY DEF Routed
    <2> HIDE DEF todo
    <2>3. new \in Job
      BY <2>2 DEF Job
    <2>4. Sound(new)
      BY <2>1, <2>3 DEF Sound
    <2> QED
      BY <2>1, <2>3, <2>4
  <1>3. ASSUME NEW c \in Client, ResetAllBreakers(c)
        PROVE  JobsSound'
    <2> DEFINE new == [kind |-> "reset", sensitive |-> FALSE, preferred |-> NoProvider,
                       pc |-> "clear", todo |-> {}, chain |-> Provider,
                       attempt |-> 0, retry |-> FALSE, number |-> 0]
    <2>1. job' = [job EXCEPT ![c] = new]
      BY <1>3 DEF ResetAllBreakers
    <2>2. new \in Job
      BY DEF Job
    <2>3. Sound(new)
      BY <2>2, ProvidersAssumption DEF Sound
    <2> QED
      BY <2>1, <2>2, <2>3
  <1>4. CASE Restart
    BY <1>4 DEF Restart
  <1>5. CASE UNCHANGED job
    BY <1>5
  <1> QED
    BY <1>1, <1>2, <1>3, <1>4, <1>5 DEF Next, NewPeriod, Tick, vars

LEMMA CacheStep ==
    ASSUME JobsSound, CacheTyped, [Next]_vars
    PROVE  CacheTyped'
  <1> USE SettingsAssumption DEF CacheTyped
  <1>1. ASSUME NEW c \in Client, WriteCount(c)
        PROVE  CacheTyped'
    <2>1. job[c].number \in 0 .. Threshold
      BY <1>1 DEF WriteCount, JobsSound, Sound
    <2>2. 2 * Cooldown \in 0 .. 2 * Cooldown
      OBVIOUS
    <2> QED
      BY <1>1, <2>1, <2>2 DEF WriteCount
  <1>2. ASSUME NEW c \in Client, Trip(c) \/ ClearFailures(c) \/ CloseCircuit(c)
        PROVE  CacheTyped'
    <2>1. 0 \in 0 .. 2 * Cooldown /\ {0, Cooldown} \subseteq 0 .. Cooldown /\ 0 \in 0 .. Threshold
      OBVIOUS
    <2> QED
      BY <1>2, <2>1 DEF Trip, ClearFailures, CloseCircuit
  <1>3. CASE Tick
    <2>1. \A n \in Nat : \A ttl \in [Provider -> 0 .. n] : Older(ttl) \in [Provider -> 0 .. n]
      BY DEF Older
    <2>2. 2 * Cooldown \in Nat /\ Cooldown \in Nat
      OBVIOUS
    <2>3. failuresFor' \in [Provider -> 0 .. 2 * Cooldown] /\ openFor' \in [Provider -> 0 .. Cooldown]
      BY <1>3, <2>1, <2>2 DEF Tick
    <2>4. failures' \in [Provider -> 0 .. Threshold]
      BY <1>3 DEF Tick
    <2> QED
      BY <2>3, <2>4
  <1>4. CASE Restart
    BY <1>4 DEF Restart
  <1>5. CASE UNCHANGED cache
    BY <1>5 DEF cache
  <1> QED
    BY <1>1, <1>2, <1>3, <1>4, <1>5
    DEF Next, Step, CheckCircuit, Answer, Fail, NotConfigured, Log, Begin, ResetAllBreakers,
        NewPeriod, vars

SpendingTyped == spent \in [Period -> Nat]

LEMMA SpentStep ==
    ASSUME JobsSound, SpendingTyped, [Next]_vars
    PROVE  SpendingTyped'
  <1> USE DEF SpendingTyped
  <1>1. ASSUME NEW c \in Client, Log(c)
        PROVE  SpendingTyped'
    <2>1. job[c].number \in Nat
      BY <1>1 DEF Log, JobsSound, Sound, Job
    <2> QED
      BY <1>1, <2>1 DEF Log
  <1>2. ASSUME NEW b \in Period, NewPeriod(b)
        PROVE  SpendingTyped'
    BY <1>2 DEF NewPeriod
  <1>3. CASE UNCHANGED spent
    BY <1>3
  <1> QED
    BY <1>1, <1>2, <1>3
    DEF Next, Step, CheckCircuit, Answer, Fail, NotConfigured, WriteCount, Trip, ClearFailures,
        CloseCircuit, Begin, ResetAllBreakers, Tick, Restart, vars

GatewayInv == JobsSound /\ CacheTyped /\ SpendingTyped

LEMMA GatewayInvariant == Spec => []GatewayInv
  <1>1. Init => GatewayInv
    BY SettingsAssumption DEF Init, GatewayInv, JobsSound, CacheTyped, SpendingTyped
  <1>2. GatewayInv /\ [Next]_vars => GatewayInv'
    BY JobsStep, CacheStep, SpentStep DEF GatewayInv
  <1> QED
    BY <1>1, <1>2, PTL DEF Spec

(* The cache, the spending and every request keep their types: no attempt goes
   beyond MaxRetries, no count and no key's life beyond what is written. *)
THEOREM GatewayTypeCorrect == Spec => []TypeOK
  <1>1. GatewayInv => TypeOK
    BY DEF GatewayInv, JobsSound, CacheTyped, SpendingTyped, TypeOK
  <1> QED
    BY <1>1, GatewayInvariant, PTL

-----------------------------------------------------------------------------
(* Privacy and budget *)

(* A request in progress never gains a cloud provider. *)
LEMMA SpendingShrinks ==
    ASSUME GatewayInv, NEW c \in Client, Step(c)
    PROVE  /\ Spending' \subseteq Spending
           /\ \A d \in Spending' : job'[d].sensitive = job[d].sensitive
  <1>1. PICK new : job' = [job EXCEPT ![c] = new] /\ Continues(new, job[c])
    BY StepContinues DEF GatewayInv
  <1>2. job \in [Client -> Job \cup {Idle}]
    BY DEF GatewayInv, JobsSound
  <1>3. job[c] # Idle
    BY DEF Step, CheckCircuit, Answer, Fail, NotConfigured, WriteCount, Trip,
           ClearFailures, CloseCircuit, Log
  <1>4. \A d \in Client : d # c => job'[d] = job[d]
    BY <1>1, <1>2
  <1>5. job'[c] = new
    BY <1>1, <1>2
  <1>6. c \in Spending' => c \in Spending /\ job'[c].sensitive = job[c].sensitive
    BY <1>1, <1>3, <1>5 DEF Spending, Continues, Narrower
  <1> QED
    BY <1>4, <1>6 DEF Spending

(* A request that begins is routed to the cloud only when it may be. *)
LEMMA BeginsAllowed ==
    ASSUME GatewayInv, NEW c \in Client, NEW kind, NEW sensitive \in BOOLEAN,
           NEW preferred, NEW able \in SUBSET Provider,
           Begin(c, kind, sensitive, preferred, able)
    PROVE  /\ Spending' \subseteq Spending \cup {c}
           /\ \A d \in Spending' \ {c} : job'[d] = job[d]
           /\ c \in Spending' => /\ CanUseCloud
                                 /\ Policy # "local_only"
                                 /\ ~(SensitiveLocalOnly /\ job'[c].sensitive)
  <1>1. job \in [Client -> Job \cup {Idle}]
    BY DEF GatewayInv, JobsSound
  <1>2. \A d \in Client : d # c => job'[d] = job[d]
    BY <1>1 DEF Begin
  <1>3. /\ job'[c].todo = Routed(able, sensitive)
        /\ job'[c].chain = {}
        /\ job'[c].sensitive = sensitive
    BY <1>1 DEF Begin
  <1>4. ~(Routed(able, sensitive) \subseteq Local) =>
            /\ CanUseCloud
            /\ Policy # "local_only"
            /\ ~(SensitiveLocalOnly /\ sensitive)
    BY SettingsAssumption DEF Routed
  <1>5. c \in Spending' => ~(Routed(able, sensitive) \subseteq Local)
    BY <1>3 DEF Spending
  <1> QED
    BY <1>2, <1>3, <1>4, <1>5 DEF Spending

(* All other steps leave the requests alone or end them. *)
LEMMA OthersShrink ==
    ASSUME GatewayInv,
           \/ \E c \in Client : ResetAllBreakers(c)
           \/ \E b \in Period : NewPeriod(b)
           \/ Tick
           \/ Restart
           \/ UNCHANGED vars
    PROVE  /\ Spending' \subseteq Spending
           /\ \A d \in Spending' : job'[d].sensitive = job[d].sensitive
  <1>1. job \in [Client -> Job \cup {Idle}]
    BY DEF GatewayInv, JobsSound
  <1>2. ASSUME NEW c \in Client, ResetAllBreakers(c)
        PROVE  Spending' \subseteq Spending /\ \A d \in Spending' : job'[d] = job[d]
    BY <1>1, <1>2 DEF ResetAllBreakers, Spending
  <1>3. CASE Restart
    BY <1>3 DEF Restart, Spending
  <1>4. CASE UNCHANGED job
    BY <1>4 DEF Spending
  <1> QED
    BY <1>2, <1>3, <1>4 DEF NewPeriod, Tick, vars

(* Nothing sensitive reaches the cloud: the route is fixed before the first
   call, and neither a preference nor a fallback adds to it (build_chain). *)
THEOREM SensitiveIsLocal == Spec => []SensitiveStaysLocal
  <1>1. Init => SensitiveStaysLocal
    BY DEF Init, SensitiveStaysLocal, Spending
  <1>2. ASSUME GatewayInv, SensitiveStaysLocal, [Next]_vars
        PROVE  SensitiveStaysLocal'
    <2>1. CASE \/ \E c \in Client : Step(c) \/ ResetAllBreakers(c)
               \/ \E b \in Period : NewPeriod(b)
               \/ Tick
               \/ Restart
               \/ UNCHANGED vars
      BY <1>2, <2>1, SpendingShrinks, OthersShrink DEF SensitiveStaysLocal
    <2>2. ASSUME NEW c \in Client, NEW kind \in {"ask", "stream"}, NEW sensitive \in BOOLEAN,
                 NEW able \in SUBSET Provider, NEW preferred \in able \cup {NoProvider},
                 Begin(c, kind, sensitive, preferred, able)
          PROVE  SensitiveStaysLocal'
      BY <1>2, <2>2, BeginsAllowed DEF SensitiveStaysLocal
    <2> QED
      BY <1>2, <2>1, <2>2 DEF Next
  <1> QED
    BY <1>1, <1>2, GatewayInvariant, PTL DEF Spec

LEMMA ClientSets ==
    ASSUME NEW S \in SUBSET Client, NEW T \in SUBSET S
    PROVE  /\ IsFiniteSet(S) /\ Cardinality(S) \in Nat
           /\ Cardinality(T) \in Nat /\ Cardinality(T) <= Cardinality(S)
  <1>1. IsFiniteSet(S)
    BY ClientsAssumption, FS_Subset
  <1>2. IsFiniteSet(T) /\ Cardinality(T) <= Cardinality(S)
    BY <1>1, FS_Subset
  <1> QED
    BY <1>1, <1>2, FS_CardinalityType

LEMMA TimesMonotone ==
    ASSUME NEW a \in Nat, NEW b \in Nat, a <= b, NEW m \in Nat
    PROVE  m * a <= m * b /\ m * a \in Nat /\ m * b \in Nat
  <1>1. PICK d \in Nat : b = a + d
    <2>1. b - a \in Nat /\ b = a + (b - a)
      OBVIOUS
    <2> QED
      BY <2>1
  <1>2. m * b = m * a + m * d /\ m * d \in Nat /\ m * a \in Nat
    BY <1>1
  <1> QED
    BY <1>2

(* What may be spent at most when the requests in S are in progress. *)
WithinBound(b, amount, S) ==
    amount + MaxCost * Cardinality(S) < Limit[b] + MaxCost * Cardinality(Client)

LEMMA FewerSpend ==
    ASSUME NEW b \in Period, NEW amount \in Nat, NEW S \in SUBSET Client, NEW T \in SUBSET S,
           WithinBound(b, amount, S)
    PROVE  WithinBound(b, amount, T)
  <1>1. MaxCost * Cardinality(T) <= MaxCost * Cardinality(S)
        /\ MaxCost * Cardinality(T) \in Nat /\ MaxCost * Cardinality(S) \in Nat
    BY ClientSets, TimesMonotone, SettingsAssumption
  <1>2. MaxCost * Cardinality(Client) \in Nat /\ Limit[b] \in Nat
    BY ClientsAssumption, FS_CardinalityType, TimesMonotone, SettingsAssumption
  <1> QED
    BY <1>1, <1>2 DEF WithinBound

LEMMA BelowLimit ==
    ASSUME NEW b \in Period, NEW amount \in Nat, NEW S \in SUBSET Client, amount < Limit[b]
    PROVE  WithinBound(b, amount, S)
  <1>1. /\ MaxCost * Cardinality(S) <= MaxCost * Cardinality(Client)
        /\ MaxCost * Cardinality(S) \in Nat /\ MaxCost * Cardinality(Client) \in Nat
    BY ClientSets, TimesMonotone, SettingsAssumption
  <1> QED
    BY <1>1, SettingsAssumption DEF WithinBound

LEMMA LoggedSpend ==
    ASSUME NEW b \in Period, NEW amount \in Nat, NEW S \in SUBSET Client, NEW c \in S,
           NEW n \in 0 .. MaxCost, WithinBound(b, amount, S)
    PROVE  WithinBound(b, amount + n, S \ {c})
  <1> DEFINE k == Cardinality(S \ {c})
  <1>1. k \in Nat /\ Cardinality(S) = k + 1
    BY ClientSets, FS_RemoveElement
  <1>2. MaxCost * (k + 1) = MaxCost * k + MaxCost /\ MaxCost * k \in Nat
    BY <1>1, SettingsAssumption
  <1>3. MaxCost * Cardinality(Client) \in Nat /\ Limit[b] \in Nat
    BY ClientsAssumption, FS_CardinalityType, TimesMonotone, SettingsAssumption
  <1>4. amount + (MaxCost * k + MaxCost) < Limit[b] + MaxCost * Cardinality(Client)
    BY <1>1, <1>2 DEF WithinBound
  <1>5. (amount + n) + MaxCost * k < Limit[b] + MaxCost * Cardinality(Client)
    <2> DEFINE x == MaxCost * k
               y == MaxCost * Cardinality(Client)
    <2>1. x \in Nat /\ y \in Nat /\ MaxCost \in Nat /\ amount + (x + MaxCost) < Limit[b] + y
      BY <1>2, <1>3, <1>4, SettingsAssumption
    <2> HIDE DEF x, y
    <2>2. (amount + n) + x < Limit[b] + y
      BY <1>3, <2>1
    <2> QED
      BY <2>2 DEF x, y
  <1> QED
    BY <1>5 DEF WithinBound

(* A budget is exceeded by no more than one answer for each request that can be
   in progress: the check and the log are far apart, but a request that finds
   the budget used up gets no cloud provider (can_use_cloud, _log). *)
THEOREM OverspendIsBounded == Spec => []OverspendBounded
  <1> DEFINE Within == \A b \in Period : Limit[b] > 0 => WithinBound(b, spent[b], Spending)
  <1>1. Within <=> OverspendBounded
    BY DEF OverspendBounded, WithinBound
  <1>2. Spending \in SUBSET Client /\ Spending' \in SUBSET Client
    BY DEF Spending
  <1>3. Init => Within
    <2>1. Init => \A b \in Period : spent[b] = 0
      BY DEF Init
    <2>2. \A b \in Period : Limit[b] \in Nat
      BY SettingsAssumption
    <2> QED
      BY <1>2, <2>1, <2>2, BelowLimit
  <1>4. ASSUME GatewayInv, Within, [Next]_vars
        PROVE  Within'
    <2> USE <1>2
    <2>1. spent \in [Period -> Nat]
      BY <1>4 DEF GatewayInv, SpendingTyped
    <2>2. ASSUME spent' = spent, Spending' \subseteq Spending
          PROVE  Within'
      BY <1>4, <2>1, <2>2, FewerSpend
    <2>3. ASSUME NEW c \in Client, Log(c)
          PROVE  Within'
      <3> DEFINE n == job[c].number
      <3>1. Sound(job[c]) /\ job[c].kind # "reset" /\ job[c].pc = "log"
        BY <1>4, <2>3 DEF GatewayInv, JobsSound, Log, Sound
      <3>2. n \in Costs(Current(job[c])) /\ Current(job[c]) \in job[c].chain
        BY <3>1, CurrentIsMember DEF Sound
      <3>3. \A b \in Period : spent'[b] = spent[b] + n
        BY <2>3 DEF Log
      <3>4. Spending' = Spending \ {c}
        BY <1>4, <2>3 DEF Log, Spending, GatewayInv, JobsSound
      <3>5. CASE c \in Spending
        <4>1. n \in 0 .. MaxCost
          BY <3>2, SettingsAssumption DEF Costs
        <4> HIDE DEF n
        <4> QED
          BY <1>4, <2>1, <3>3, <3>4, <3>5, <4>1, LoggedSpend
      <3>6. CASE c \notin Spending
        <4>1. job[c].chain \subseteq Local
          BY <2>3, <3>1, <3>6 DEF Spending, Log
        <4>2. n = 0
          BY <3>2, <4>1 DEF Costs
        <4>3. \A b \in Period : spent'[b] = spent[b]
          BY <2>1, <3>3, <4>2
        <4> QED
          BY <1>4, <2>1, <3>4, <4>3, FewerSpend
      <3> QED
        BY <3>5, <3>6
    <2>4. ASSUME NEW c \in Client, Step(c), ~Log(c)
          PROVE  Within'
      <3>1. spent' = spent
        BY <2>4 DEF Step, CheckCircuit, Answer, Fail, NotConfigured, WriteCount, Trip,
                    ClearFailures, CloseCircuit
      <3> QED
        BY <1>4, <2>2, <2>4, <3>1, SpendingShrinks
    <2>5. ASSUME NEW c \in Client, NEW kind \in {"ask", "stream"}, NEW sensitive \in BOOLEAN,
                 NEW able \in SUBSET Provider, NEW preferred \in able \cup {NoProvider},
                 Begin(c, kind, sensitive, preferred, able)
          PROVE  Within'
      <3>1. spent' = spent
        BY <2>5 DEF Begin
      <3>2. CASE c \notin Spending'
        BY <2>2, <2>5, <3>1, <3>2, BeginsAllowed, <1>4
      <3>3. CASE c \in Spending'
        <4>1. \A b \in Period : Limit[b] > 0 => spent[b] < Limit[b]
          BY <1>4, <2>5, <3>3, BeginsAllowed DEF CanUseCloud
        <4> QED
          BY <2>1, <3>1, <4>1, BelowLimit
      <3> QED
        BY <3>2, <3>3
    <2>6. ASSUME NEW p \in Period, NewPeriod(p)
          PROVE  Within'
      <3>1. Spending' = Spending
        BY <2>6 DEF NewPeriod, Spending
      <3>2. \A b \in Period : spent'[b] = 0 \/ spent'[b] = spent[b]
        BY <2>1, <2>6 DEF NewPeriod
      <3>3. ASSUME NEW b \in Period, Limit[b] > 0
            PROVE  WithinBound(b, spent'[b], Spending')
        <4>1. CASE spent'[b] = 0
          BY <3>3, <4>1, BelowLimit, SettingsAssumption
        <4>2. CASE spent'[b] = spent[b]
          BY <1>4, <3>1, <3>3, <4>2
        <4> QED
          BY <3>2, <4>1, <4>2
      <3> QED
        BY <3>3
    <2>7. CASE (\E c \in Client : ResetAllBreakers(c)) \/ Tick \/ Restart \/ UNCHANGED vars
      <3>1. spent' = spent
        BY <2>7 DEF ResetAllBreakers, Tick, Restart, vars
      <3> QED
        BY <1>4, <2>2, <2>7, <3>1, OthersShrink
    <2> HIDE DEF Within
    <2> QED
      BY <1>4, <2>3, <2>4, <2>5, <2>6, <2>7 DEF Next
  <1> HIDE DEF Within
  <1>5. Spec => []Within
    BY <1>3, <1>4, GatewayInvariant, PTL DEF Spec
  <1> QED
    BY <1>1, <1>5, PTL
-----------------------------------------------------------------------------
(* Progress *)

(* How many steps a request still has to make at most: three for each attempt
   (it calls, counts a failure, opens the circuit) and three after an answer. *)
CallsLeft(j) ==
    Cardinality(j.todo)
        + 3 * ((MaxRetries + 1) * Cardinality(j.todo \cup j.chain) - j.attempt)

StepsLeft(j) ==
    IF j.kind = "reset"
    THEN [clear |-> 2 * Cardinality(j.chain), close |-> 2 * Cardinality(j.chain) - 1][j.pc]
    ELSE [route |-> CallsLeft(j) + 1, call |-> CallsLeft(j) + 1, count |-> CallsLeft(j),
          trip |-> CallsLeft(j) - 1, clear |-> 3, close |-> 2, log |-> 1][j.pc]

(* No request goes round in circles: whatever a step does, fail, retry or fall
   back, it leaves fewer steps to make, so that the calls of a request are
   bounded by its providers and MaxRetries (ask, build_chain). *)
RequestsAdvance ==
    [][\A c \in Client :
          Step(c) => job'[c] = Idle \/ StepsLeft(job'[c]) \in 1 .. StepsLeft(job[c]) - 1]_vars

LEMMA ProviderSets ==
    ASSUME NEW S \in SUBSET Provider
    PROVE  /\ IsFiniteSet(S) /\ Cardinality(S) \in Nat
           /\ S # {} => Cardinality(S) >= 1
           /\ \A T \in SUBSET S : Cardinality(T) <= Cardinality(S)
           /\ \A p \in S : Cardinality(S \ {p}) = Cardinality(S) - 1
  <1>1. IsFiniteSet(S)
    BY ProvidersAssumption, FS_Subset
  <1>2. Cardinality(S) \in Nat
    BY <1>1, FS_CardinalityType
  <1>3. S # {} => Cardinality(S) # 0
    BY <1>1, FS_EmptySet
  <1>4. \A T \in SUBSET S : Cardinality(T) <= Cardinality(S)
    BY <1>1, FS_Subset
  <1>5. \A p \in S : Cardinality(S \ {p}) = Cardinality(S) - 1
    BY <1>1, FS_RemoveElement
  <1> QED
    BY <1>1, <1>2, <1>3, <1>4, <1>5

(* Fewer providers are fewer attempts, by a round of them for each. *)
LEMMA AttemptsMonotone ==
    ASSUME NEW a \in Nat, NEW b \in Nat, a <= b
    PROVE  /\ (MaxRetries + 1) * a \in Nat
           /\ (MaxRetries + 1) * a <= (MaxRetries + 1) * b
           /\ a < b => (MaxRetries + 1) * a + MaxRetries + 1 <= (MaxRetries + 1) * b
  <1>1. MaxRetries + 1 \in Nat /\ MaxRetries \in Nat
    BY SettingsAssumption
  <1>2. (MaxRetries + 1) * a \in Nat /\ (MaxRetries + 1) * a <= (MaxRetries + 1) * b
    BY <1>1, TimesMonotone
  <1>3. ASSUME a < b
        PROVE  (MaxRetries + 1) * a + MaxRetries + 1 <= (MaxRetries + 1) * b
    <2>1. (MaxRetries + 1) * (a + 1) = (MaxRetries + 1) * a + MaxRetries + 1
      BY <1>1
    <2>2. (MaxRetries + 1) * (a + 1) <= (MaxRetries + 1) * b
      BY <1>1, <1>3, TimesMonotone
    <2> QED
      BY <2>1, <2>2
  <1> QED
    BY <1>2, <1>3

(* A request in progress has a call to make. *)
LEMMA CallsLeftTyped ==
    ASSUME NEW j, Sound(j)
    PROVE  CallsLeft(j) \in Nat /\ CallsLeft(j) >= 3
  <1> DEFINE k == Cardinality(j.todo \cup j.chain)
             rounds == (MaxRetries + 1) * k
  <1>1. /\ j.todo \in SUBSET Provider /\ j.chain \in SUBSET Provider
        /\ j.attempt \in 0 .. MaxRetries /\ j.todo \cup j.chain # {}
    BY DEF Sound, Job
  <1>2. Cardinality(j.todo) \in Nat /\ k \in Nat /\ k >= 1
    BY <1>1, ProviderSets
  <1>3. rounds \in Nat /\ rounds >= MaxRetries + 1
    <2> HIDE DEF k
    <2>1. (MaxRetries + 1) * 0 = 0
      BY SettingsAssumption
    <2>2. (MaxRetries + 1) * 0 + MaxRetries + 1 <= (MaxRetries + 1) * k /\ (MaxRetries + 1) * k \in Nat
      BY <1>2, AttemptsMonotone
    <2> QED
      BY <2>1, <2>2, SettingsAssumption
  <1> HIDE DEF k, rounds
  <1>4. CallsLeft(j) = Cardinality(j.todo) + 3 * (rounds - j.attempt)
    BY DEF CallsLeft, rounds, k
  <1> QED
    BY <1>1, <1>2, <1>3, <1>4, SettingsAssumption

(* How the bound falls when a request goes on with fewer providers or attempts,
   ... *)
LEMMA CallsLeftCompare ==
    ASSUME NEW new, NEW old, Sound(new), Sound(old),
           new.todo \cup new.chain \subseteq old.todo \cup old.chain,
           Cardinality(new.todo) <= Cardinality(old.todo)
    PROVE  /\ old.attempt <= new.attempt =>
                 CallsLeft(new) <= CallsLeft(old) - Cardinality(old.todo) + Cardinality(new.todo)
           /\ old.attempt < new.attempt => CallsLeft(new) <= CallsLeft(old) - 3
           /\ new.todo \cup new.chain # old.todo \cup old.chain =>
                 CallsLeft(new) <= CallsLeft(old) - 3
  <1> DEFINE U(j) == j.todo \cup j.chain
             k(j) == Cardinality(U(j))
             rounds(j) == (MaxRetries + 1) * k(j)
  <1>1. ASSUME NEW j, Sound(j)
        PROVE  /\ U(j) \in SUBSET Provider /\ k(j) \in Nat /\ Cardinality(j.todo) \in Nat
               /\ j.attempt \in 0 .. MaxRetries /\ rounds(j) \in Nat
    <2>1. j.todo \in SUBSET Provider /\ U(j) \in SUBSET Provider /\ j.attempt \in 0 .. MaxRetries
      BY <1>1 DEF Sound, Job
    <2>2. k(j) \in Nat /\ Cardinality(j.todo) \in Nat
      BY <2>1, ProviderSets
    <2> HIDE DEF k
    <2> QED
      BY <2>1, <2>2, AttemptsMonotone
  <1>2. k(new) <= k(old)
    BY <1>1, ProviderSets
  <1>3. U(new) # U(old) => k(new) < k(old)
    <2> SUFFICES ASSUME U(new) # U(old) PROVE k(new) < k(old)
      OBVIOUS
    <2>1. PICK p \in U(old) : p \notin U(new)
      OBVIOUS
    <2>2. U(new) \subseteq U(old) \ {p} /\ U(old) \ {p} \in SUBSET Provider
      BY <1>1, <2>1
    <2>3. Cardinality(U(new)) <= Cardinality(U(old) \ {p})
      <3> HIDE DEF U
      <3> QED
        BY <2>2, ProviderSets
    <2>4. Cardinality(U(old) \ {p}) = Cardinality(U(old)) - 1
      <3> HIDE DEF U
      <3> QED
        BY <1>1, <2>1, ProviderSets
    <2> QED
      BY <1>1, <2>3, <2>4
  <1>4. \A j : CallsLeft(j) = Cardinality(j.todo) + 3 * (rounds(j) - j.attempt)
    BY DEF CallsLeft
  <1>5. /\ rounds(new) <= rounds(old)
        /\ U(new) # U(old) => rounds(new) + MaxRetries + 1 <= rounds(old)
    <2>1. k(new) \in Nat /\ k(old) \in Nat
      BY <1>1
    <2> HIDE DEF k, U
    <2> QED
      BY <1>2, <1>3, <2>1, AttemptsMonotone
  <1>6. /\ new.attempt \in 0 .. MaxRetries /\ rounds(new) \in Nat /\ Cardinality(new.todo) \in Nat
        /\ old.attempt \in 0 .. MaxRetries /\ rounds(old) \in Nat /\ Cardinality(old.todo) \in Nat
    BY <1>1
  <1> HIDE DEF rounds, U
  <1>7. /\ CallsLeft(new) = Cardinality(new.todo) + 3 * (rounds(new) - new.attempt)
        /\ CallsLeft(old) = Cardinality(old.todo) + 3 * (rounds(old) - old.attempt)
    BY <1>4
  <1>8. U(new) # U(old) => CallsLeft(new) <= CallsLeft(old) - 3
    BY <1>5, <1>6, <1>7, SettingsAssumption
  <1>9. /\ old.attempt <= new.attempt =>
              CallsLeft(new) <= CallsLeft(old) - Cardinality(old.todo) + Cardinality(new.todo)
        /\ old.attempt < new.attempt => CallsLeft(new) <= CallsLeft(old) - 3
    BY <1>5, <1>6, <1>7, SettingsAssumption
  <1> QED
    BY <1>8, <1>9 DEF U

(* ... and the steps a request has still to make at each place. *)
LEMMA StepsLeftAt ==
    ASSUME NEW j, Sound(j)
    PROVE  /\ j.kind = "reset" /\ j.pc = "clear" => StepsLeft(j) = 2 * Cardinality(j.chain)
           /\ j.kind = "reset" /\ j.pc = "close" => StepsLeft(j) = 2 * Cardinality(j.chain) - 1
           /\ j.kind # "reset" /\ j.pc \in {"route", "call"} => StepsLeft(j) = CallsLeft(j) + 1
           /\ j.kind # "reset" /\ j.pc = "count" => StepsLeft(j) = CallsLeft(j)
           /\ j.kind # "reset" /\ j.pc = "trip" => StepsLeft(j) = CallsLeft(j) - 1
           /\ j.kind # "reset" /\ j.pc = "clear" => StepsLeft(j) = 3
           /\ j.kind # "reset" /\ j.pc = "close" => StepsLeft(j) = 2
           /\ j.kind # "reset" /\ j.pc = "log" => StepsLeft(j) = 1
           /\ StepsLeft(j) \in Nat \ {0}
  <1>1. CallsLeft(j) \in Nat /\ CallsLeft(j) >= 3
    BY CallsLeftTyped
  <1>2. j.kind = "reset" => Cardinality(j.chain) \in Nat /\ Cardinality(j.chain) >= 1
    <2>1. j.kind = "reset" => j.chain \in SUBSET Provider /\ j.chain # {}
      BY DEF Sound, Job
    <2> QED
      BY <2>1, ProviderSets
  <1> DEFINE n == Cardinality(j.chain)
             m == CallsLeft(j)
  <1>3. /\ j.kind = "reset" /\ j.pc = "clear" => StepsLeft(j) = 2 * n
        /\ j.kind = "reset" /\ j.pc = "close" => StepsLeft(j) = 2 * n - 1
        /\ j.kind # "reset" /\ j.pc \in {"route", "call"} => StepsLeft(j) = m + 1
        /\ j.kind # "reset" /\ j.pc = "count" => StepsLeft(j) = m
        /\ j.kind # "reset" /\ j.pc = "trip" => StepsLeft(j) = m - 1
        /\ j.kind # "reset" /\ j.pc = "clear" => StepsLeft(j) = 3
        /\ j.kind # "reset" /\ j.pc = "close" => StepsLeft(j) = 2
        /\ j.kind # "reset" /\ j.pc = "log" => StepsLeft(j) = 1
    BY DEF StepsLeft
  <1>4. j.pc \in {"route", "call", "count", "trip", "clear", "close", "log"}
        /\ (j.kind = "reset" => j.pc \in {"clear", "close"})
    BY DEF Sound, Job
  <1> HIDE DEF n, m
  <1>5. StepsLeft(j) \in Nat \ {0}
    <2>1. m \in Nat /\ m >= 3 /\ (j.kind = "reset" => n \in Nat /\ n >= 1)
      BY <1>1, <1>2 DEF n, m
    <2> QED
      BY <1>3, <1>4, <2>1
  <1> QED
    BY <1>3, <1>5 DEF n, m

LEMMA NextProviderAdvances ==
    ASSUME NEW j, Sound(j), j.pc # "route", j.kind # "reset", NextProvider(j) # Idle
    PROVE  StepsLeft(NextProvider(j)) < CallsLeft(j) - 1
  <1> DEFINE rest == j.chain \ {Current(j)}
             new == [j EXCEPT !.pc = "call", !.chain = rest, !.attempt = 0,
                              !.retry = FALSE, !.number = 0]
  <1>1. j \in Job /\ j.chain # {} /\ j.todo = {}
    BY DEF Sound
  <1>2. Current(j) \in j.chain
    BY <1>1, CurrentIsMember
  <1>3. NextProvider(j) = new
    BY DEF NextProvider
  <1>4. Sound(new)
    BY <1>1, <1>3, NextProviderContinues DEF Continues
  <1>5. new.pc = "call" /\ new.chain = rest /\ new.todo = {} /\ new.kind # "reset"
    BY <1>1 DEF Job
  <1>6. /\ new.todo \cup new.chain \subseteq j.todo \cup j.chain
        /\ new.todo \cup new.chain # j.todo \cup j.chain
    BY <1>1, <1>2, <1>5
  <1>7. Cardinality(new.todo) <= Cardinality(j.todo)
    <2>1. Cardinality({}) \in Int
      BY FS_EmptySet
    <2> QED
      BY <1>1, <1>5, <2>1
  <1> HIDE DEF new
  <1>8. CallsLeft(new) <= CallsLeft(j) - 3
    BY <1>4, <1>6, <1>7, CallsLeftCompare
  <1>9. StepsLeft(new) = CallsLeft(new) + 1
    BY <1>4, <1>5, StepsLeftAt
  <1> QED
    BY <1>3, <1>4, <1>8, <1>9, CallsLeftTyped

LEMMA AfterFailureAdvances ==
    ASSUME NEW j, Sound(j), j.pc # "route", j.kind # "reset", NEW new \in AfterFailure(j), new # Idle
    PROVE  StepsLeft(new) < CallsLeft(j) - 1
  <1>1. j \in Job /\ j.chain # {} /\ j.todo = {} /\ CallsLeft(j) \in Nat /\ CallsLeft(j) >= 3
    BY CallsLeftTyped DEF Sound
  <1>2. Sound(new) /\ new.kind = j.kind
    BY <1>1, AfterFailureContinues DEF Continues, Narrower
  <1>3. CASE j.kind = "stream"
    <2>1. new.pc = "log"
      BY <1>1, <1>3 DEF AfterFailure, Job
    <2>2. StepsLeft(new) = 1
      BY <1>2, <2>1, StepsLeftAt
    <2> QED
      BY <1>1, <2>2
  <1>4. CASE j.kind # "stream" /\ j.retry /\ j.attempt < MaxRetries
    <2>1. new = [j EXCEPT !.pc = "call", !.attempt = @ + 1, !.retry = FALSE, !.number = 0]
      BY <1>4 DEF AfterFailure
    <2>2. /\ new.pc = "call" /\ new.todo = j.todo /\ new.chain = j.chain
          /\ j.attempt < new.attempt /\ Cardinality(new.todo) <= Cardinality(j.todo)
      <3>1. /\ new.pc = "call" /\ new.todo = j.todo /\ new.chain = j.chain
            /\ new.attempt = j.attempt + 1 /\ j.attempt \in Nat
        BY <1>1, <2>1 DEF Job
      <3>2. Cardinality(j.todo) \in Int
        <4>1. j.todo \in SUBSET Provider
          BY <1>1 DEF Job
        <4> QED
          BY <4>1, ProviderSets
      <3> QED
        BY <3>1, <3>2
    <2>3. CallsLeft(new) <= CallsLeft(j) - 3
      BY <1>2, <2>2, CallsLeftCompare
    <2>4. StepsLeft(new) = CallsLeft(new) + 1
      BY <1>2, <2>2, StepsLeftAt
    <2> QED
      BY <1>1, <1>2, <2>3, <2>4, CallsLeftTyped
  <1>5. CASE ~(j.kind = "stream") /\ ~(j.kind # "stream" /\ j.retry /\ j.attempt < MaxRetries)
    <2>1. new = NextProvider(j)
      BY <1>5 DEF AfterFailure
    <2> QED
      BY <2>1, NextProviderAdvances
  <1> QED
    BY <1>3, <1>4, <1>5

(* A step that leaves the providers and the attempt as they are leaves the
   calls as they are. *)
LEMMA CallsLeftStay ==
    ASSUME NEW new, NEW old, Sound(old),
           new.todo = old.todo, new.chain = old.chain, new.attempt = old.attempt
    PROVE  CallsLeft(new) = CallsLeft(old)
  BY DEF CallsLeft

LEMMA StepAdvances ==
    ASSUME GatewayInv, NEW c \in Client, Step(c), job'[c] # Idle
    PROVE  StepsLeft(job'[c]) \in 1 .. StepsLeft(job[c]) - 1
  <1> DEFINE j == job[c]
             new == job'[c]
  <1>1. Sound(j) /\ j \in Job /\ j # Idle
    <2>1. j # Idle
      BY DEF Step, CheckCircuit, Answer, Fail, NotConfigured, WriteCount, Trip,
             ClearFailures, CloseCircuit, Log
    <2> QED
      BY <2>1 DEF GatewayInv, JobsSound, Sound
  <1>2. job \in [Client -> Job \cup {Idle}]
    BY DEF GatewayInv, JobsSound
  <1>3. Sound(new) /\ new.kind = j.kind
    <2>1. PICK next : job' = [job EXCEPT ![c] = next] /\ Continues(next, j)
      BY StepContinues DEF GatewayInv
    <2>2. new = next
      BY <1>2, <2>1
    <2> QED
      BY <2>1, <2>2 DEF Continues, Narrower
  <1>4. /\ StepsLeft(j) \in Nat \ {0} /\ StepsLeft(new) \in Nat \ {0}
        /\ CallsLeft(j) \in Nat /\ CallsLeft(j) >= 3 /\ CallsLeft(new) \in Nat
    BY <1>1, <1>3, StepsLeftAt, CallsLeftTyped
  <1> SUFFICES StepsLeft(new) < StepsLeft(j)
    BY <1>4
  <1>5. CASE CheckCircuit(c)
    <2> DEFINE p == FirstOf(j.todo, j.preferred)
    <2>1. j.pc = "route" /\ j.kind # "reset" /\ j.todo # {} /\ j.todo \in SUBSET Provider
      BY <1>1, <1>5 DEF CheckCircuit, Sound, Job
    <2>2. p \in j.todo
      BY <2>1, FirstOfIsMember
    <2>3. /\ new.pc \in {"route", "call"} /\ new.attempt = j.attempt
          /\ new.todo \in {{}, j.todo \ {p}}
      <3> HIDE DEF p
      <3> QED
        BY <1>1, <1>2, <1>5, <2>1 DEF CheckCircuit, Job, p
    <2>4. new.todo \cup new.chain \subseteq j.todo \cup j.chain
      <3>1. PICK next : job' = [job EXCEPT ![c] = next] /\ Continues(next, j)
        BY StepContinues DEF GatewayInv
      <3>2. new = next
        BY <1>2, <3>1
      <3> QED
        BY <3>1, <3>2 DEF Continues, Narrower
    <2>5. /\ Cardinality(new.todo) <= Cardinality(j.todo) - 1
          /\ Cardinality(new.todo) \in Nat /\ Cardinality(j.todo) \in Nat
      <3>1. j.todo \ {p} \in SUBSET Provider /\ new.todo \in SUBSET (j.todo \ {p})
        BY <2>1, <2>3
      <3>2. Cardinality(new.todo) <= Cardinality(j.todo \ {p})
        BY <3>1, ProviderSets
      <3>3. Cardinality(j.todo \ {p}) = Cardinality(j.todo) - 1
        BY <2>1, <2>2, ProviderSets
      <3>4. Cardinality(new.todo) \in Nat /\ Cardinality(j.todo) \in Nat
        BY <2>1, <3>1, ProviderSets
      <3> QED
        BY <3>2, <3>3, <3>4
    <2>6. CallsLeft(new) <= CallsLeft(j) - Cardinality(j.todo) + Cardinality(new.todo)
      <3>1. j.attempt <= new.attempt
        BY <1>1, <2>3 DEF Job
      <3> HIDE DEF j, new
      <3> QED
        BY <1>1, <1>3, <2>4, <2>5, <3>1, CallsLeftCompare
    <2>7. StepsLeft(new) = CallsLeft(new) + 1 /\ StepsLeft(j) = CallsLeft(j) + 1
      BY <1>1, <1>3, <2>1, <2>3, StepsLeftAt
    <2> HIDE DEF j, new
    <2> QED
      BY <1>4, <2>5, <2>6, <2>7
  <1>6. CASE Answer(c)
    <2>1. j.pc = "call" /\ new.pc = "clear"
      BY <1>1, <1>2, <1>6 DEF Answer, Job
    <2>2. j.kind # "reset"
      BY <1>1, <2>1 DEF Sound
    <2>3. StepsLeft(new) = 3 /\ StepsLeft(j) = CallsLeft(j) + 1
      BY <1>1, <1>3, <2>1, <2>2, StepsLeftAt
    <2> QED
      BY <1>4, <2>3
  <1>7. ASSUME NEW retry \in BOOLEAN, Fail(c, retry)
        PROVE  StepsLeft(new) < StepsLeft(j)
    <2>1. /\ j.pc = "call" /\ new.pc = "count"
          /\ new.todo = j.todo /\ new.chain = j.chain /\ new.attempt = j.attempt
      BY <1>1, <1>2, <1>7 DEF Fail, Job
    <2>2. j.kind # "reset"
      BY <1>1, <2>1 DEF Sound
    <2>3. CallsLeft(new) = CallsLeft(j)
      BY <1>1, <2>1, CallsLeftStay
    <2>4. StepsLeft(new) = CallsLeft(new) /\ StepsLeft(j) = CallsLeft(j) + 1
      BY <1>1, <1>3, <2>1, <2>2, StepsLeftAt
    <2> QED
      BY <1>4, <2>3, <2>4
  <1>8. CASE NotConfigured(c)
    <2>1. j.pc = "call" /\ j.kind = "ask" /\ new = NextProvider(j)
      BY <1>1, <1>2, <1>8 DEF NotConfigured
    <2>2. StepsLeft(new) < CallsLeft(j) - 1
      BY <1>1, <2>1, NextProviderAdvances
    <2>3. StepsLeft(j) = CallsLeft(j) + 1
      BY <1>1, <2>1, StepsLeftAt
    <2> QED
      BY <1>4, <2>2, <2>3
  <1>9. CASE WriteCount(c)
    <2>1. j.pc = "count"
      BY <1>9 DEF WriteCount
    <2>2. j.kind # "reset"
      BY <1>1, <2>1 DEF Sound
    <2>3. StepsLeft(j) = CallsLeft(j)
      BY <1>1, <2>1, <2>2, StepsLeftAt
    <2>4. new = [j EXCEPT !.pc = "trip"] \/ new \in AfterFailure(j)
      BY <1>2, <1>9 DEF WriteCount
    <2>5. CASE new = [j EXCEPT !.pc = "trip"]
      <3>1. /\ new.pc = "trip" /\ new.todo = j.todo /\ new.chain = j.chain
            /\ new.attempt = j.attempt
        BY <1>1, <2>5 DEF Job
      <3>2. CallsLeft(new) = CallsLeft(j)
        BY <1>1, <3>1, CallsLeftStay
      <3>3. StepsLeft(new) = CallsLeft(new) - 1
        BY <1>3, <2>2, <3>1, StepsLeftAt
      <3> QED
        BY <1>4, <2>3, <3>2, <3>3
    <2>6. CASE new \in AfterFailure(j)
      <3>1. StepsLeft(new) < CallsLeft(j) - 1
        BY <1>1, <2>1, <2>2, <2>6, AfterFailureAdvances
      <3> QED
        BY <1>4, <2>3, <3>1
    <2> QED
      BY <2>4, <2>5, <2>6
  <1>10. CASE Trip(c)
    <2>1. j.pc = "trip" /\ new \in AfterFailure(j)
      BY <1>2, <1>10 DEF Trip
    <2>2. j.kind # "reset"
      BY <1>1, <2>1 DEF Sound
    <2>3. StepsLeft(new) < CallsLeft(j) - 1
      BY <1>1, <2>1, <2>2, AfterFailureAdvances
    <2>4. StepsLeft(j) = CallsLeft(j) - 1
      BY <1>1, <2>1, <2>2, StepsLeftAt
    <2> QED
      BY <1>4, <2>3, <2>4
  <1>11. CASE ClearFailures(c)
    <2>1. j.pc = "clear" /\ new.pc = "close" /\ new.chain = j.chain
      BY <1>1, <1>2, <1>11 DEF ClearFailures, Job
    <2>2. j.kind = "reset" => Cardinality(j.chain) \in Nat
      <3>1. j.chain \in SUBSET Provider
        BY <1>1 DEF Job
      <3> QED
        BY <3>1, ProviderSets
    <2>3. /\ j.kind # "reset" => StepsLeft(j) = 3 /\ StepsLeft(new) = 2
          /\ j.kind = "reset" => /\ StepsLeft(j) = 2 * Cardinality(j.chain)
                                 /\ StepsLeft(new) = 2 * Cardinality(j.chain) - 1
      BY <1>1, <1>3, <2>1, StepsLeftAt
    <2> QED
      BY <1>4, <2>2, <2>3
  <1>12. CASE CloseCircuit(c)
    <2> DEFINE p == Current(j)
    <2>1. j.pc = "close"
      BY <1>12 DEF CloseCircuit
    <2>2. CASE j.kind # "reset"
      <3>1. new.pc = "log"
        BY <1>1, <1>2, <1>12, <2>2 DEF CloseCircuit, Job
      <3>2. StepsLeft(j) = 2 /\ StepsLeft(new) = 1
        BY <1>1, <1>3, <2>1, <2>2, <3>1, StepsLeftAt
      <3> QED
        BY <3>2
    <2>3. CASE j.kind = "reset"
      <3>1. new.pc = "clear" /\ new.chain = j.chain \ {p}
        BY <1>1, <1>2, <1>12, <2>3 DEF CloseCircuit, Job
      <3>2. p \in j.chain /\ j.chain \in SUBSET Provider
        BY <1>1, <2>1, CurrentIsMember DEF Sound, Job
      <3>3. Cardinality(new.chain) = Cardinality(j.chain) - 1 /\ Cardinality(j.chain) \in Nat
        BY <3>1, <3>2, ProviderSets
      <3>4. /\ StepsLeft(j) = 2 * Cardinality(j.chain) - 1
            /\ StepsLeft(new) = 2 * Cardinality(new.chain)
        BY <1>1, <1>3, <2>1, <2>3, <3>1, StepsLeftAt
      <3> QED
        BY <3>3, <3>4
    <2> QED
      BY <2>2, <2>3
  <1>13. CASE Log(c)
    BY <1>2, <1>13 DEF Log
  <1> QED
    BY <1>5, <1>6, <1>7, <1>8, <1>9, <1>10, <1>11, <1>12, <1>13 DEF Step

(* Whatever happens to a request, each step leaves it fewer to make, for any
   providers and retries and whatever the other requests do: the calls of a
   request are bounded (ask, build_chain). *)
THEOREM CallsAreBounded == Spec => RequestsAdvance
  <1>1. ASSUME GatewayInv, [Next]_vars
        PROVE  [\A c \in Client :
                  Step(c) => job'[c] = Idle \/ StepsLeft(job'[c]) \in 1 .. StepsLeft(job[c]) - 1]_vars
    BY <1>1, StepAdvances
  <1> QED
    BY <1>1, GatewayInvariant, PTL DEF Spec, RequestsAdvance

(* The requests that may still call p. *)
Callers(p) == {c \in Client : job[c] # Idle /\ job[c].kind # "reset" /\ p \in job[c].chain}

(* A provider whose circuit is open gets no new callers: what keeps failing
   there has found the circuit closed, and each of its steps brings it nearer
   to its end (build_chain). *)
THEOREM OpenCircuitsShield ==
    Spec => [][\A p \in Provider : IsCircuitOpen(p) => Callers(p)' \subseteq Callers(p)]_vars
  <1>1. ASSUME GatewayInv, NEW p \in Provider, IsCircuitOpen(p), NEW c \in Client, Step(c)
        PROVE  Callers(p)' \subseteq Callers(p)
    <2>1. job \in [Client -> Job \cup {Idle}]
      BY <1>1 DEF GatewayInv, JobsSound
    <2>2. PICK new : job' = [job EXCEPT ![c] = new] /\ Continues(new, job[c])
      BY <1>1, StepContinues DEF GatewayInv
    <2>3. job[c] # Idle
      BY <1>1 DEF Step, CheckCircuit, Answer, Fail, NotConfigured, WriteCount, Trip,
                  ClearFailures, CloseCircuit, Log
    <2>4. new # Idle => Sound(new) /\ new.kind = job[c].kind /\ Sound(job[c])
      BY <1>1, <2>2, <2>3 DEF Continues, Narrower, GatewayInv, JobsSound
    <2>5. new # Idle /\ p \in new.chain => p \in job[c].chain
      <3>1. CASE job[c].pc # "route"
        <4>1. new # Idle => new.todo \cup new.chain \subseteq job[c].chain
          BY <2>2, <2>4, <3>1 DEF Continues, Narrower, Sound
        <4> QED
          BY <4>1
      <3>2. CASE job[c].pc = "route"
        <4>1. CheckCircuit(c)
          BY <1>1, <3>2 DEF Step, Answer, Fail, NotConfigured, WriteCount, Trip,
                            ClearFailures, CloseCircuit, Log
        <4> DEFINE j == job[c]
                   q == FirstOf(j.todo, j.preferred)
                   chain == IF IsCircuitOpen(q) THEN j.chain ELSE j.chain \cup {q}
                   first == IF j.kind = "stream" THEN {FirstOf(chain, j.preferred)} ELSE chain
        <4>2. p \in chain => p \in j.chain
          BY <1>1
        <4>3. new = job'[c]
          BY <2>1, <2>2
        <4>4. \/ job'[c] = [j EXCEPT !.todo = j.todo \ {q}, !.chain = chain]
              \/ job'[c] = Idle
              \/ chain # {} /\ job'[c] = [j EXCEPT !.pc = "call", !.todo = {}, !.chain = first]
          BY <2>1, <4>1 DEF CheckCircuit
        <4>5. j \in Job /\ chain \in SUBSET Provider
          <5>1. j \in Job
            BY <2>1, <2>3
          <5>2. j.chain \in SUBSET Provider /\ j.todo \in SUBSET Provider
            BY <5>1 DEF Job
          <5>3. j.todo # {}
            BY <1>1, <2>3, <3>2 DEF GatewayInv, JobsSound, Sound
          <5>4. q \in Provider
            BY <5>2, <5>3, FirstOfIsMember
          <5> QED
            BY <5>1, <5>2, <5>4
        <4>6. chain # {} => first \subseteq chain
          BY <4>5, FirstOfIsMember
        <4> HIDE DEF chain, first, q
        <4>7. new # Idle => new.chain \subseteq chain
          <5>1. CASE job'[c] = [j EXCEPT !.todo = j.todo \ {q}, !.chain = chain]
            BY <4>3, <4>5, <5>1 DEF Job
          <5>2. CASE chain # {} /\ job'[c] = [j EXCEPT !.pc = "call", !.todo = {}, !.chain = first]
            BY <4>3, <4>5, <4>6, <5>2 DEF Job
          <5> QED
            BY <4>3, <4>4, <5>1, <5>2
        <4> QED
          BY <4>2, <4>7
      <3> QED
        BY <3>1, <3>2
    <2> QED
      BY <2>1, <2>2, <2>3, <2>4, <2>5 DEF Callers

  <1>2. ASSUME GatewayInv, NEW p \in Provider, NEW c \in Client,
               \/ ResetAllBreakers(c)
               \/ \E kind, sensitive, preferred, able : Begin(c, kind, sensitive, preferred, able)
        PROVE  Callers(p)' \subseteq Callers(p)
    <2>1. job \in [Client -> Job \cup {Idle}]
      BY <1>2 DEF GatewayInv, JobsSound
    <2>2. c \notin Callers(p)' /\ \A d \in Client : d # c => job'[d] = job[d]
      BY <1>2, <2>1 DEF ResetAllBreakers, Begin, Callers
    <2> QED
      BY <2>2 DEF Callers
  <1>3. ASSUME NEW p \in Provider, Restart \/ UNCHANGED job
        PROVE  Callers(p)' \subseteq Callers(p)
    BY <1>3 DEF Restart, Callers
  <1>4. ASSUME GatewayInv, [Next]_vars
        PROVE  [\A p \in Provider : IsCircuitOpen(p) => Callers(p)' \subseteq Callers(p)]_vars
    <2> SUFFICES ASSUME NEW p \in Provider, IsCircuitOpen(p)
                 PROVE  Callers(p)' \subseteq Callers(p)
      OBVIOUS
    <2> QED
      BY <1>1, <1>2, <1>3, <1>4 DEF Next, NewPeriod, Tick, vars
  <1> QED
    BY <1>4, GatewayInvariant, PTL DEF Spec

=============================================================================
