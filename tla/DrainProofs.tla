----------------------------- MODULE DrainProofs -----------------------------
(***************************************************************************)
(* What is proved of Drain for every set of pods, every number of polls    *)
(* and every load: TypeOK, the verdicts of WaitForDrain that can be        *)
(* trusted, and the one that can be for a service of one server.           *)
(***************************************************************************)
EXTENDS Drain, FiniteSetTheorems, TLAPS

\* Nothing is being summed outside a poll.
Quiet == pc # "sum" => \A p \in Pod : go[p] = "done"

\* An answer is in m only after the scrape of its pod.
NotYetAsked == \A p \in Pod : go[p] = "scrape" => m[p] = 0

\* Neither the sum nor what a goroutine read of it is made up.
SumIsSeen == (\A p \in Pod : m[p] = 0) => n = 0 /\ \A p \in Pod : reg[p] = 0

\* The caller leaves "sum" by the verdict of PollDone.
Verdicts ==
  /\ pc = "drained" => ~ScrapeFailed
  /\ pc = "sleep" => ~NoneInFlight

DrainInv == TypeOK /\ Quiet /\ NotYetAsked /\ SumIsSeen /\ Verdicts

\* The sum of one goroutine goes up once, from zero to the answer of its pod.
OneSum ==
  \A p \in Pod :
    /\ go[p] \in {"scrape", "load"} => n = 0
    /\ go[p] = "store" => reg[p] = 0
    /\ go[p] = "done" => n = m[p]
    /\ pc = "drained" => NoneInFlight

-----------------------------------------------------------------------------
(* TypeOK *)

LEMMA TypeInit == Init => TypeOK
<1> SUFFICES ASSUME Init PROVE TypeOK
  OBVIOUS
<1>1. answered \in [Pod -> BOOLEAN] /\ paused \in BOOLEAN
  BY DrainAssumption, Zenon DEF Init
<1>2. n \in Nat /\ polls \in 0..(MaxPolls - 1)
  BY DrainAssumption DEF Init
<1>3. reg \in [Pod -> Nat] /\ m \in [Pod -> 0..MaxInFlight]
  BY DrainAssumption DEF Init
<1> QED
  BY <1>1, <1>2, <1>3 DEF Init, TypeOK

LEMMA TypeStep == TypeOK /\ [Next]_vars => TypeOK'
<1> SUFFICES ASSUME TypeOK, [Next]_vars PROVE TypeOK'
  OBVIOUS
<1> USE DrainAssumption DEF TypeOK
<1>1. ASSUME NEW start \in BOOLEAN, StartStop(start) PROVE TypeOK'
  BY <1>1 DEF StartStop, wait, Pausing
<1>2. CASE RequestsInFlight
  BY <1>2 DEF RequestsInFlight, FreshSum
<1>3. CASE PollDone
  BY <1>3 DEF PollDone, wait
<1>4. CASE Sleep
  BY <1>4 DEF Sleep, MorePolls
<1>5. ASSUME NEW p \in Pod, Scrape(p) PROVE TypeOK'
  BY <1>5 DEF Scrape
<1>6. ASSUME NEW p \in Pod, LoadSum(p) PROVE TypeOK'
  BY <1>6 DEF LoadSum
<1>7. ASSUME NEW p \in Pod, StoreSum(p) PROVE TypeOK'
  BY <1>7 DEF StoreSum
<1>8. ASSUME NEW p \in Pod, Arrive(p) PROVE TypeOK'
  BY <1>8 DEF Arrive, wait
<1>9. ASSUME NEW p \in Pod, Finish(p) PROVE TypeOK'
  BY <1>9 DEF Finish, wait
<1>10. CASE UNCHANGED vars
  BY <1>10 DEF vars, wait
<1> QED
  BY <1>1, <1>2, <1>3, <1>4, <1>5, <1>6, <1>7, <1>8, <1>9, <1>10
     DEF Next, Caller, Goroutine

\* Every variable of Drain stays in its range, whatever races: in particular
\* the sum never leaves the naturals and no poll is made after MaxPolls.
THEOREM TypeCorrect == Spec => []TypeOK
BY TypeInit, TypeStep, PTL DEF Spec

-----------------------------------------------------------------------------
(* The verdicts of WaitForDrain *)

LEMMA DrainInit == Init => DrainInv
BY TypeInit DEF Init, DrainInv, Quiet, NotYetAsked, SumIsSeen, Verdicts

LEMMA DrainStep == DrainInv /\ [Next]_vars => DrainInv'
<1> SUFFICES ASSUME DrainInv, [Next]_vars PROVE DrainInv'
  OBVIOUS
<1>0. TypeOK /\ TypeOK'
  BY TypeStep DEF DrainInv
<1> USE <1>0 DEF DrainInv, Quiet, NotYetAsked, SumIsSeen, Verdicts, ScrapeFailed, NoneInFlight
<1>1. ASSUME NEW start \in BOOLEAN, StartStop(start) PROVE DrainInv'
  BY <1>1 DEF StartStop, wait
<1>2. CASE RequestsInFlight
  BY <1>2 DEF RequestsInFlight, FreshSum, TypeOK
<1>3. CASE PollDone
  BY <1>3 DEF PollDone, wait
<1>4. CASE Sleep
  BY <1>4 DEF Sleep
<1>5. ASSUME NEW p \in Pod, Scrape(p) PROVE DrainInv'
  <2>1. pc = "sum" /\ m[p] = 0
    BY <1>5 DEF Scrape
  <2>2. \A q \in Pod : m'[q] = 0 => m[q] = 0
    BY <1>5, <2>1 DEF Scrape, TypeOK
  <2> QED
    BY <1>5, <2>1, <2>2 DEF Scrape, TypeOK
<1>6. ASSUME NEW p \in Pod, LoadSum(p) PROVE DrainInv'
  BY <1>6 DEF LoadSum, TypeOK
<1>7. ASSUME NEW p \in Pod, StoreSum(p) PROVE DrainInv'
  BY <1>7 DEF StoreSum, TypeOK
<1>8. ASSUME NEW p \in Pod, Arrive(p) PROVE DrainInv'
  BY <1>8 DEF Arrive, wait
<1>9. ASSUME NEW p \in Pod, Finish(p) PROVE DrainInv'
  BY <1>9 DEF Finish, wait
<1>10. CASE UNCHANGED vars
  BY <1>10 DEF vars, wait
<1> QED
  BY <1>1, <1>2, <1>3, <1>4, <1>5, <1>6, <1>7, <1>8, <1>9, <1>10
     DEF Next, Caller, Goroutine

\* WaitForDrain never says drained after a poll in which the metrics of some
\* pod could not be had, however the goroutines interleave.
THEOREM DrainedIsAnswered == Spec => []DrainedMeansAnswered
<1>1. DrainInv => DrainedMeansAnswered
  BY DEF DrainInv, Verdicts, ScrapeFailed, DrainedMeansAnswered
<1> QED
  BY <1>1, DrainInit, DrainStep, PTL DEF Spec

\* The race loses counts but makes none up, and none is left of a poll before: a
\* poll that keeps WaitForDrain waiting saw a request on some pod.
THEOREM BusyIsSeen == Spec => []BusyMeansSeen
<1>1. DrainInv => BusyMeansSeen
  BY DEF DrainInv, TypeOK, Verdicts, NoneInFlight, SumIsSeen, BusyMeansSeen
<1> QED
  BY <1>1, DrainInit, DrainStep, PTL DEF Spec

-----------------------------------------------------------------------------
(* One server *)

LEMMA OneServer == ~Statefulset => \E p \in Pod : Pod = {p}
BY DrainAssumption, FS_Singleton

LEMMA OneSumStep ==
  ASSUME DrainInv, OneSum, [Next]_vars, NEW p, Pod = {p}
  PROVE  OneSum'
<1> USE DEF OneSum, DrainInv, TypeOK, NoneInFlight
<1>1. ASSUME NEW start \in BOOLEAN, StartStop(start) PROVE OneSum'
  BY <1>1 DEF StartStop, wait
<1>2. CASE RequestsInFlight
  BY <1>2 DEF RequestsInFlight, FreshSum
<1>3. CASE PollDone
  BY <1>3 DEF PollDone, wait
<1>4. CASE Sleep
  BY <1>4 DEF Sleep
<1>5. CASE Scrape(p)
  BY <1>5 DEF Scrape, Quiet
<1>6. CASE LoadSum(p)
  BY <1>6 DEF LoadSum, Quiet
<1>7. CASE StoreSum(p)
  BY <1>7 DEF StoreSum, Quiet
<1>8. CASE Arrive(p) \/ Finish(p)
  BY <1>8 DEF Arrive, Finish, wait
<1>9. CASE UNCHANGED vars
  BY <1>9 DEF vars, wait
<1> QED
  BY <1>1, <1>2, <1>3, <1>4, <1>5, <1>6, <1>7, <1>8, <1>9 DEF Next, Caller, Goroutine

\* A service of one server is said to be drained only if that server answered
\* that it serves nothing: with one goroutine the sum has no race.
THEOREM OneServerDrains == ~Statefulset => (Spec => []DrainedMeansEmpty)
<1> SUFFICES ASSUME ~Statefulset PROVE Spec => []DrainedMeansEmpty
  OBVIOUS
<1>1. PICK p \in Pod : Pod = {p}
  BY OneServer
<1>2. Init => DrainInv /\ OneSum
  BY DrainInit DEF Init, OneSum
<1>3. DrainInv /\ OneSum /\ [Next]_vars => (DrainInv /\ OneSum)'
  BY <1>1, DrainStep, OneSumStep
<1>4. DrainInv /\ OneSum => DrainedMeansEmpty
  BY DEF DrainInv, Quiet, OneSum, NoneInFlight, DrainedMeansEmpty
<1> QED
  BY <1>2, <1>3, <1>4, PTL DEF Spec
=============================================================================
