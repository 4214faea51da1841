-------------------------------- MODULE Drain --------------------------------
(***************************************************************************)
(* Draining a service before it is reset (schema/service.go): StartStop,   *)
(* WaitForDrain and RequestsInFlight, whose goroutines, one per pod, add   *)
(* into one variable without a lock, while clients send and finish         *)
(* requests.                                                               *)
(***************************************************************************)
EXTENDS Naturals, FiniteSets

CONSTANTS
  Pod,          \* the pods RequestsInFlight asks
  Statefulset,  \* whether the service is a statefulset, or one server
  MaxPolls,     \* polls of WaitForDrain (20 in the code)
  MaxInFlight   \* bound: requests in flight on a pod

ASSUME DrainAssumption ==
  /\ IsFiniteSet(Pod) /\ Pod # {}
  /\ Statefulset \in BOOLEAN
  /\ ~Statefulset => Cardinality(Pod) = 1
  /\ MaxPolls \in Nat \ {0}
  /\ MaxInFlight \in Nat

VARIABLES
  pc,        \* where the caller is
  polls,     \* polls of WaitForDrain made before the current one
  n,         \* the sum the goroutines share
  go,        \* go[p]: what the goroutine of pod p is about to do
  reg,       \* reg[p]: the value of n the goroutine of p read
  m,         \* m[p]: the number pod p answered
  answered,  \* answered[p]: the scrape of p succeeded
  paused,    \* the Kubernetes service's selector has the Pause key
  inflight   \* inflight[p]: requests pod p is serving

wait == <<polls, n, go, reg, m, answered>>
vars == <<pc, wait, paused, inflight>>

TypeOK ==
  /\ pc \in {"stop", "poll", "sum", "sleep", "drained", "failed", "started"}
  /\ polls \in 0..(MaxPolls - 1)
  /\ n \in Nat
  /\ go \in [Pod -> {"scrape", "load", "store", "done"}]
  /\ reg \in [Pod -> Nat]
  /\ m \in [Pod -> 0..MaxInFlight]
  /\ answered \in [Pod -> BOOLEAN]
  /\ paused \in BOOLEAN
  /\ inflight \in [Pod -> 0..MaxInFlight]

Init ==
  /\ pc = "stop" /\ polls = 0 /\ n = 0
  /\ go = [p \in Pod |-> "done"]
  /\ reg = [p \in Pod |-> 0]
  /\ m = [p \in Pod |-> 0]
  /\ answered = [p \in Pod |-> TRUE]
  /\ paused \in (IF Statefulset THEN BOOLEAN ELSE {FALSE})
  /\ inflight \in [Pod -> 0..MaxInFlight]

-----------------------------------------------------------------------------
(* The clients: a service whose selector asks for Pause matches no pod, and *)
(* nothing stops the requests to a local server.                            *)

Arrive(p) ==
  /\ ~paused /\ inflight[p] < MaxInFlight
  /\ inflight' = [inflight EXCEPT ![p] = @ + 1]
  /\ UNCHANGED <<pc, wait, paused>>

Finish(p) ==
  /\ inflight[p] > 0
  /\ inflight' = [inflight EXCEPT ![p] = @ - 1]
  /\ UNCHANGED <<pc, wait, paused>>

-----------------------------------------------------------------------------
(* StartStop(false) deletes the Pause key, StartStop(true) sets it; the     *)
(* result of the update is dropped, a failed get is an error.               *)
Pausing(start) == start

StartStop(start) ==
  /\ pc = IF start THEN "drained" ELSE "stop"
  /\ \/ /\ pc' = IF start THEN "started" ELSE "poll"
        /\ IF Statefulset THEN paused' \in {Pausing(start), paused} ELSE UNCHANGED paused
     \/ /\ Statefulset /\ pc' = "failed" /\ UNCHANGED paused
  /\ UNCHANGED <<wait, inflight>>

-----------------------------------------------------------------------------
(* One poll: RequestsInFlight *)

\* Mutant: the sum of the poll before is kept.
SumKept == n

\* The sum a poll starts from.
FreshSum == 0

RequestsInFlight ==
  /\ pc = "poll"
  /\ pc' = "sum" /\ n' = FreshSum
  /\ go' = [p \in Pod |-> "scrape"]
  /\ answered' = [p \in Pod |-> TRUE]
  /\ m' = [p \in Pod |-> 0] /\ reg' = [p \in Pod |-> 0]
  /\ UNCHANGED <<polls, paused, inflight>>

\* The metrics of one pod; a scrape that fails yields zero and an error.
Scrape(p) ==
  /\ go[p] = "scrape"
  /\ \/ m' = [m EXCEPT ![p] = inflight[p]] /\ UNCHANGED answered
     \/ answered' = [answered EXCEPT ![p] = FALSE] /\ UNCHANGED m
  /\ go' = [go EXCEPT ![p] = "load"]
  /\ UNCHANGED <<pc, polls, n, reg, paused, inflight>>

\* n += m is a load and a store that other goroutines may come between.
LoadSum(p) ==
  /\ go[p] = "load"
  /\ reg' = [reg EXCEPT ![p] = n]
  /\ go' = [go EXCEPT ![p] = "store"]
  /\ UNCHANGED <<pc, polls, n, m, answered, paused, inflight>>

StoreSum(p) ==
  /\ go[p] = "store"
  /\ n' = reg[p] + m[p]
  /\ go' = [go EXCEPT ![p] = "done"]
  /\ UNCHANGED <<pc, polls, reg, m, answered, paused, inflight>>

\* Mutant: errors of goroutines are dropped.
ScrapesNeverFail == FALSE

\* Wait returns an error if a goroutine did.
ScrapeFailed == \E p \in Pod : ~answered[p]

NoneInFlight == n = 0

\* WaitForDrain: an error ends it, zero ends it well, anything else is
\* waited out for a second.
PollDone ==
  /\ pc = "sum" /\ \A p \in Pod : go[p] = "done"
  /\ pc' = IF ScrapeFailed THEN "failed" ELSE IF NoneInFlight THEN "drained" ELSE "sleep"
  /\ UNCHANGED <<wait, paused, inflight>>

\* Whether the loop of WaitForDrain goes round again.
MorePolls == polls + 1 < MaxPolls

\* Mutant: the polls are not counted.
SleepUncounted ==
  /\ pc = "sleep" /\ pc' = "poll"
  /\ UNCHANGED <<wait, paused, inflight>>

Sleep ==
  /\ pc = "sleep"
  /\ polls' = IF MorePolls THEN polls + 1 ELSE polls
  /\ pc' = IF MorePolls THEN "poll" ELSE "failed"
  /\ UNCHANGED <<n, go, reg, m, answered, paused, inflight>>

Goroutine(p) == Scrape(p) \/ LoadSum(p) \/ StoreSum(p)
Caller == (\E start \in BOOLEAN : StartStop(start)) \/ RequestsInFlight \/ PollDone \/ Sleep

Next ==
  \/ Caller
  \/ \E p \in Pod : Goroutine(p) \/ Arrive(p) \/ Finish(p)

\* The caller and its goroutines run; no client has to do anything.
Spec == Init /\ [][Next]_vars /\ WF_vars(Caller) /\ \A p \in Pod : WF_vars(Goroutine(p))

-----------------------------------------------------------------------------
(* Properties *)

\* WaitForDrain never says drained when the number of some pod is unknown.
DrainedMeansAnswered == pc = "drained" => \A p \in Pod : answered[p]

\* A poll that keeps WaitForDrain waiting, or makes it give up, saw a
\* request: no count is left over from another poll, or made up by the race.
BusyMeansSeen == pc = "sleep" => \E p \in Pod : m[p] > 0

\* WaitForDrain says drained only when every pod answered that it serves no
\* request: "service %s did not drain in 20 seconds" otherwise.
DrainedMeansEmpty == pc = "drained" => \A p \in Pod : m[p] = 0

\* Traffic that never stops cannot keep WaitForDrain waiting for ever.
WaitEnds == pc = "poll" ~> pc \in {"drained", "failed", "started"}
=============================================================================
