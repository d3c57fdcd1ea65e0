---------------------------- MODULE RateLimiter ----------------------------
(***************************************************************************)
(* HostRateLimiter (src/src/lib/connectors/rateLimiter.ts): the outbound   *)
(* requests to one host are chained promises.  A request waits for the     *)
(* promise it was chained behind, sleeps until the host's interval has     *)
(* passed since the last start, and then starts.                           *)
(*                                                                         *)
(* A request is a member of Requests and calls acquire at most once.  The  *)
(* clock is Date.now, taken to be monotonic; a setTimeout may fire up to   *)
(* Early ticks before the clock shows its delay has passed.                *)
(***************************************************************************)
EXTENDS Integers

CONSTANTS
  Hosts,        \* host names
  Requests,     \* calls of acquire
  Interval,     \* minimum interval of each host, in clock ticks
  Early,        \* how many ticks early a timer may fire
  IdleTime,     \* bound: the clock runs past it only while a timer is pending
  None          \* undefined

ASSUME IntervalAssumption == Interval \in [Hosts -> Nat]
ASSUME EarlyAssumption == Early \in Nat
ASSUME IdleAssumption == IdleTime \in Nat
ASSUME NoneAssumption == None \notin Int /\ None \notin Requests /\ None \notin Hosts

VARIABLES
  now,          \* deps.now()
  lastStart,    \* lastStart[h]: when the last request to h started
  queue,        \* queue[h]: the request whose promise ends h's chain
  pc,           \* where each request stands
  host,         \* the host a request was made to
  prev,         \* the request a request is chained behind
  wake,         \* when a sleeping request's timer is due
  ticket        \* how many requests its host had seen when it was chained

vars == <<now, lastStart, queue, pc, host, prev, wake, ticket>>

TypeOK ==
  /\ now \in Nat
  /\ lastStart \in [Hosts -> Nat \cup {None}]
  /\ queue \in [Hosts -> Requests \cup {None}]
  /\ pc \in [Requests -> {"idle", "chained", "sleeping", "granted", "failed"}]
  /\ host \in [Requests -> Hosts \cup {None}]
  /\ prev \in [Requests -> Requests \cup {None}]
  /\ wake \in [Requests -> Nat \cup {None}]
  /\ ticket \in [Requests -> Nat]

Init ==
  /\ now = 0
  /\ lastStart = [h \in Hosts |-> None]
  /\ queue = [h \in Hosts |-> None]
  /\ pc = [r \in Requests |-> "idle"]
  /\ host = [r \in Requests |-> None]
  /\ prev = [r \in Requests |-> None]
  /\ wake = [r \in Requests |-> None]
  /\ ticket = [r \in Requests |-> 0]

Settled(r) == pc[r] \in {"granted", "failed"}

(* Faults: the new promise is not chained behind the last one; the queue   *)
(* keeps a promise whose rejection nobody catches.                         *)
MyTurn_NotChained(r) == TRUE
MyTurn_NotCaught(r) == prev[r] = None \/ (prev[r] \in Requests /\ pc[prev[r]] = "granted")

(* queue.get(host) ?? Promise.resolve(): nothing to wait for, or settled.  *)
MyTurn(r) == prev[r] = None \/ (prev[r] \in Requests /\ Settled(prev[r]))

Acquire(r, h) ==
  /\ pc[r] = "idle"
  /\ pc' = [pc EXCEPT ![r] = "chained"]
  /\ host' = [host EXCEPT ![r] = h]
  /\ prev' = [prev EXCEPT ![r] = queue[h]]
  /\ queue' = [queue EXCEPT ![h] = r]
  /\ ticket' = [ticket EXCEPT ![r] = IF queue[h] = None THEN 1 ELSE ticket[queue[h]] + 1]
  /\ UNCHANGED <<now, lastStart, wake>>

MustWait(h) == lastStart[h] # None /\ lastStart[h] + Interval[h] > now

Start(r) ==
  /\ lastStart' = [lastStart EXCEPT ![host[r]] = now]
  /\ pc' = [pc EXCEPT ![r] = "granted"]
  /\ wake' = [wake EXCEPT ![r] = None]
  /\ UNCHANGED <<now, queue, host, prev, ticket>>

StartAtOnce(r) ==
  /\ pc[r] = "chained"
  /\ MyTurn(r)
  /\ ~MustWait(host[r])
  /\ Start(r)

(* Fault: the delay is subtracted from the last start.                     *)
Sleep_Sign(r) ==
  /\ pc[r] = "chained"
  /\ MyTurn(r)
  /\ MustWait(host[r])
  /\ pc' = [pc EXCEPT ![r] = "sleeping"]
  /\ wake' = [wake EXCEPT ![r] = lastStart[host[r]] - Interval[host[r]]]
  /\ UNCHANGED <<now, lastStart, queue, host, prev, ticket>>

Sleep(r) ==
  /\ pc[r] = "chained"
  /\ MyTurn(r)
  /\ MustWait(host[r])
  /\ pc' = [pc EXCEPT ![r] = "sleeping"]
  /\ wake' = [wake EXCEPT ![r] = lastStart[host[r]] + Interval[host[r]]]
  /\ UNCHANGED <<now, lastStart, queue, host, prev, ticket>>

Wake(r) ==
  /\ pc[r] = "sleeping"
  /\ wake[r] <= now + Early
  /\ Start(r)

(* The injected sleep rejects: the caller sees the error, but the promise  *)
(* left in the queue has its rejection caught, so the chain goes on.       *)
SleepFails(r) ==
  /\ pc[r] = "sleeping"
  /\ pc' = [pc EXCEPT ![r] = "failed"]
  /\ wake' = [wake EXCEPT ![r] = None]
  /\ UNCHANGED <<now, lastStart, queue, host, prev, ticket>>

Tick ==
  /\ now < IdleTime \/ \E r \in Requests : pc[r] = "sleeping" /\ now < wake[r]
  /\ now' = now + 1
  /\ UNCHANGED <<lastStart, queue, pc, host, prev, wake, ticket>>

Step(r) == StartAtOnce(r) \/ Sleep(r) \/ Wake(r)

Next ==
  \/ Tick
  \/ \E r \in Requests :
       Step(r) \/ SleepFails(r) \/ \E h \in Hosts : Acquire(r, h)

(* The event loop runs due timers and microtasks, and time passes.         *)
Fairness == WF_vars(Tick) /\ \A r \in Requests : WF_vars(Step(r))

Spec == Init /\ [][Next]_vars /\ Fairness

-----------------------------------------------------------------------------
(* "Requests to the same host are serialized": while a request sleeps or   *)
(* is about to start, every request made to its host before it has         *)
(* settled, and none made after it has moved.                              *)
Underway(r) == pc[r] \in {"sleeping", "granted", "failed"}

Serialized ==
  \A r, s \in Requests :
    Underway(r) /\ host[s] = host[r] /\ ticket[s] < ticket[r] => Settled(s)

(* "spaced at least minIntervalMs apart": two starts to one host are never *)
(* closer than the interval less the timer's inaccuracy, whichever         *)
(* requests they are of and whatever failed in between.                    *)
Spacing ==
  [][\A h \in Hosts :
       lastStart'[h] # lastStart[h] /\ lastStart[h] # None
         => lastStart'[h] - lastStart[h] >= Interval[h] - Early]_vars

(* Every request that was chained starts or is told that its sleep failed: *)
(* a rejected sleep does not stall the requests behind it.                 *)
EverySettles ==
  \A r \in Requests : pc[r] = "chained" ~> Settled(r)
=============================================================================
