---------------------------- MODULE RunnerProofs ----------------------------
(***************************************************************************)
(* Who outlives the runner, for any services of the two phases.            *)
(***************************************************************************)
EXTENDS Runner, TLAPS

Started == {"running", "killed", "exited"}

\* What is being started: it has been forked, but the WaitGroup has not
\* counted it.
Uncounted == IF at <= Len(Services) /\ step \in {"list", "count"}
             THEN {Services[at]} ELSE {}

\* The lists of the runner: what was started has been counted or is about to
\* be, and main's list lacks none but the one being started.
ListsAreComplete ==
  /\ \A s \in Service : child[s] \in Started <=> s \in counted \cup Uncounted
  /\ step # "list" => \A s \in Service : child[s] \in Started => s \in cmds
  /\ \A s \in cmds : \E i \in 1 .. at :
       s = Services[i] /\ (i = at => step = "count")
  /\ at = Len(Services) + 1 => step \in {"kafka", "check"}

\* Of the children in S that may still run there is one at most.  While it is
\* being started it is the only one, and before it is forked there is none.
OneAtMost(S) ==
  /\ \A a, b \in S : child[a] = "running" /\ child[b] = "running" => a = b
  /\ step = "fork" => \A a \in S : child[a] # "running"
  /\ step \in {"list", "count"} =>
       \A a \in S : child[a] = "running" => a = Services[at]

\* What the two ways to end leave behind: main will not kill what is not in
\* the snapshot, and does not wait for what was not counted.
LateOnes ==
  /\ main = "grace" => OneAtMost(Service \ snapshot)
  /\ drained => signal /\ main # "run" /\ (main = "grace" => OneAtMost(Service))

\* The inductive invariant.
IInv ==
  /\ TypeOK
  /\ ListsAreComplete
  /\ LateOnes
  /\ AtMostOneSurvivor

-----------------------------------------------------------------------------
LEMMA ServicesAreListed ==
  /\ Len(Services) \in Nat
  /\ Len(Phase1) \in Nat /\ Len(Phase1) <= Len(Services)
  /\ \A i \in 1 .. Len(Services) : Services[i] \in Service
  /\ \A i, j \in 1 .. Len(Services) : Services[i] = Services[j] => i = j
<1>1. Phase1 \in Seq(Service) /\ Phase2 \in Seq(Service)
  BY RunnerAssumption
<1>2. Len(Phase1 \o Phase2) = Len(Phase1) + Len(Phase2)
  BY <1>1
<1>3. Len(Phase1) \in Nat /\ Len(Phase2) \in Nat
  BY <1>1
<1> QED
  BY <1>2, <1>3, RunnerAssumption DEF Services, Service

\* The next turn begins before the fork.
LEMMA TurnBegins ==
  ASSUME Turn, at \in 1 .. Len(Services)
  PROVE  /\ at' = at + 1 /\ at' \in 1 .. Len(Services) + 1
         /\ step' \in {"kafka", "check"}
BY ServicesAreListed DEF Turn, FirstStep

LEMMA InitEstablishes == Init => IInv
<1> SUFFICES ASSUME Init
             PROVE  IInv
  OBVIOUS
<1>1. step \in {"kafka", "check"}
  BY DEF Init, FirstStep
<1>2. TypeOK
  <2>1. 1 \in 1 .. Len(Services) + 1 /\ 0 \in 0 .. MaxTries
    BY ServicesAreListed, RunnerAssumption
  <2> QED
    BY <1>1, <2>1 DEF Init, TypeOK
<1>3. ListsAreComplete
  BY <1>1 DEF Init, ListsAreComplete, Started, Uncounted
<1> QED
  BY <1>2, <1>3 DEF Init, IInv, LateOnes, AtMostOneSurvivor

-----------------------------------------------------------------------------
(* One lemma for each action                                               *)

\* Steps after which no more children run, and none is closer to its fork.
LEMMA FewerRunKeeps ==
  ASSUME IInv, NEW S \in SUBSET Service, OneAtMost(S),
         UNCHANGED <<at, step>>,
         \A s \in Service : child'[s] = "running" => child[s] = "running"
  PROVE  OneAtMost(S)'
BY DEF OneAtMost

LEMMA SignalKeeps ==
  ASSUME IInv, Signal
  PROVE  IInv'
<1>1. TypeOK'
  BY DEF IInv, TypeOK, Signal, starter, stopper
<1>2. ListsAreComplete'
  BY DEF IInv, ListsAreComplete, Uncounted, Signal, starter, stopper
<1>3. LateOnes' /\ AtMostOneSurvivor'
  BY DEF IInv, LateOnes, OneAtMost, AtMostOneSurvivor, Signal, starter, stopper
<1> QED
  BY <1>1, <1>2, <1>3 DEF IInv

LEMMA KafkaKeeps ==
  ASSUME IInv, KafkaReachable \/ KafkaRefused
  PROVE  IInv'
<1>1. /\ step = "kafka" /\ step' \in {"kafka", "check"} /\ tries' \in 0 .. MaxTries
      /\ at <= Len(Services) /\ main # "ended"
      /\ UNCHANGED <<signal, at, cmds, counted, child, stopper>>
  BY RunnerAssumption DEF KafkaReachable, KafkaRefused, AtStep, IInv, TypeOK
<1>2. TypeOK'
  BY <1>1 DEF IInv, TypeOK, stopper
<1>3. ListsAreComplete'
  BY <1>1 DEF IInv, ListsAreComplete, Uncounted
<1>4. LateOnes' /\ AtMostOneSurvivor'
  BY <1>1 DEF IInv, LateOnes, OneAtMost, AtMostOneSurvivor, stopper
<1> QED
  BY <1>2, <1>3, <1>4 DEF IInv

LEMMA CheckKeeps ==
  ASSUME IInv, CheckContext
  PROVE  IInv'
<1> USE DEF IInv
<1>0. /\ step = "check" /\ at \in 1 .. Len(Services) /\ main # "ended"
      /\ UNCHANGED <<signal, tries, cmds, counted, stopper>>
  BY DEF CheckContext, AtStep, TypeOK
<1>1. Services[at] \in Service /\ Services[at] \notin cmds
  <2>1. \A i \in 1 .. at : i \in 1 .. Len(Services)
    BY <1>0, ServicesAreListed
  <2> QED
    BY <1>0, <2>1, ServicesAreListed DEF ListsAreComplete
<1>2. CASE signal
  <2>1. child' = [child EXCEPT ![Services[at]] = "failed"] /\ Turn
    BY <1>2 DEF CheckContext
  <2>2. at' = at + 1 /\ at' \in 1 .. Len(Services) + 1 /\ step' \in {"kafka", "check"}
    BY <1>0, <2>1, TurnBegins
  <2>3. TypeOK'
    BY <1>0, <1>1, <2>1, <2>2 DEF TypeOK, stopper
  <2>4. ListsAreComplete'
    <3>1. Uncounted = {} /\ Uncounted' = {}
      BY <1>0, <2>2 DEF Uncounted
    <3>2. \A s \in Service : child'[s] \in Started <=> child[s] \in Started
      <4>1. child[Services[at]] \notin Started
        BY <1>0, <1>1, <3>1 DEF TypeOK, ListsAreComplete
      <4> QED
        BY <2>1, <4>1 DEF TypeOK, Started
    <3>3. \A s \in cmds : \E i \in 1 .. at' : s = Services[i] /\ i # at'
      BY <1>0, <2>2 DEF ListsAreComplete
    <3> QED
      BY <1>0, <2>2, <3>1, <3>2, <3>3 DEF ListsAreComplete
  <2>5. LateOnes' /\ AtMostOneSurvivor'
    BY <1>0, <2>1, <2>2
       DEF TypeOK, LateOnes, OneAtMost, AtMostOneSurvivor, stopper
  <2> QED
    BY <2>3, <2>4, <2>5
<1>3. CASE ~signal
  <2>1. step' = "fork" /\ UNCHANGED <<at, child>>
    BY <1>3 DEF CheckContext
  <2>2. TypeOK'
    BY <1>0, <2>1 DEF TypeOK, stopper
  <2>3. ListsAreComplete'
    BY <1>0, <2>1 DEF ListsAreComplete, Uncounted
  <2>4. LateOnes' /\ AtMostOneSurvivor'
    BY <1>0, <1>3, <2>1 DEF TypeOK, LateOnes, AtMostOneSurvivor, stopper
  <2> QED
    BY <2>2, <2>3, <2>4
<1> QED
  BY <1>2, <1>3

LEMMA ForkKeeps ==
  ASSUME IInv, Fork
  PROVE  IInv'
<1> USE DEF IInv
<1>0. /\ step = "fork" /\ at \in 1 .. Len(Services) /\ main # "ended"
      /\ UNCHANGED <<signal, tries, cmds, counted, stopper>>
  BY DEF Fork, AtStep, TypeOK
<1>1. Services[at] \in Service /\ Services[at] \notin cmds
  <2>1. \A i \in 1 .. at : i \in 1 .. Len(Services)
    BY <1>0, ServicesAreListed
  <2> QED
    BY <1>0, <2>1, ServicesAreListed DEF ListsAreComplete
<1>2. CASE /\ child' = [child EXCEPT ![Services[at]] = "running"]
           /\ step' = "list" /\ UNCHANGED at
  <2>1. TypeOK'
    BY <1>0, <1>1, <1>2 DEF TypeOK, stopper
  <2>2. ListsAreComplete'
    BY <1>0, <1>1, <1>2 DEF TypeOK, ListsAreComplete, Uncounted, Started
  <2>3. \A S \in SUBSET Service : OneAtMost(S) => OneAtMost(S)'
    BY <1>0, <1>1, <1>2 DEF TypeOK, OneAtMost
  <2>4. LateOnes' /\ AtMostOneSurvivor'
    BY <1>0, <2>3 DEF TypeOK, LateOnes, AtMostOneSurvivor, stopper
  <2> QED
    BY <2>1, <2>2, <2>4
<1>3. CASE child' = [child EXCEPT ![Services[at]] = "failed"] /\ Turn
  <2>2. at' = at + 1 /\ at' \in 1 .. Len(Services) + 1 /\ step' \in {"kafka", "check"}
    BY <1>0, <1>3, TurnBegins
  <2>3. TypeOK'
    BY <1>0, <1>1, <1>3, <2>2 DEF TypeOK, stopper
  <2>4. ListsAreComplete'
    <3>1. Uncounted = {} /\ Uncounted' = {}
      BY <1>0, <2>2 DEF Uncounted
    <3>2. \A s \in Service : child'[s] \in Started <=> child[s] \in Started
      <4>1. child[Services[at]] \notin Started
        BY <1>0, <1>1, <3>1 DEF TypeOK, ListsAreComplete
      <4> QED
        BY <1>3, <4>1 DEF TypeOK, Started
    <3>3. \A s \in cmds : \E i \in 1 .. at' : s = Services[i] /\ i # at'
      BY <1>0, <2>2 DEF ListsAreComplete
    <3> QED
      BY <1>0, <2>2, <3>1, <3>2, <3>3 DEF ListsAreComplete
  <2>5. LateOnes' /\ AtMostOneSurvivor'
    BY <1>0, <1>3, <2>2
       DEF TypeOK, LateOnes, OneAtMost, AtMostOneSurvivor, stopper
  <2> QED
    BY <2>3, <2>4, <2>5
<1> QED
  BY <1>2, <1>3 DEF Fork

LEMMA ListKeeps ==
  ASSUME IInv, List
  PROVE  IInv'
<1> USE DEF IInv
<1>0. /\ step = "list" /\ step' = "count" /\ at \in 1 .. Len(Services)
      /\ main # "ended" /\ cmds' = cmds \cup {Services[at]}
      /\ UNCHANGED <<signal, at, tries, counted, child, stopper>>
  BY DEF List, AtStep, TypeOK
<1>1. Services[at] \in Service
  BY <1>0, ServicesAreListed
<1>2. child[Services[at]] \in Started
  BY <1>0, <1>1 DEF ListsAreComplete, Uncounted
<1>3. TypeOK'
  BY <1>0, <1>1, <1>2 DEF TypeOK, Started, stopper
<1>4. ListsAreComplete'
  <2>1. counted \subseteq cmds /\ at \in 1 .. at
    BY <1>0 DEF TypeOK
  <2>2. \A s \in cmds' : \E i \in 1 .. at : s = Services[i] /\ (i = at => step' = "count")
    BY <1>0, <2>1 DEF ListsAreComplete
  <2> QED
    BY <1>0, <1>1, <2>1, <2>2 DEF ListsAreComplete, Uncounted
<1>5. LateOnes' /\ AtMostOneSurvivor'
  BY <1>0 DEF LateOnes, OneAtMost, AtMostOneSurvivor, stopper
<1> QED
  BY <1>3, <1>4, <1>5

LEMMA CountKeeps ==
  ASSUME IInv, Count
  PROVE  IInv'
<1> USE DEF IInv
<1>0. /\ step = "count" /\ at \in 1 .. Len(Services) /\ Turn
      /\ main # "ended" /\ counted' = counted \cup {Services[at]}
      /\ UNCHANGED <<signal, tries, cmds, child, stopper>>
  BY DEF Count, AtStep, TypeOK
<1>1. at' = at + 1 /\ at' \in 1 .. Len(Services) + 1 /\ step' \in {"kafka", "check"}
  BY <1>0, TurnBegins
<1>2. Services[at] \in Service
  BY <1>0, ServicesAreListed
<1>3. child[Services[at]] \in Started
  BY <1>0, <1>2 DEF ListsAreComplete, Uncounted
<1>4. Services[at] \in cmds
  BY <1>0, <1>2, <1>3 DEF ListsAreComplete
<1>5. TypeOK'
  BY <1>0, <1>1, <1>4 DEF TypeOK, stopper
<1>6. ListsAreComplete'
  <2>1. \A s \in cmds : \E i \in 1 .. at' : s = Services[i] /\ i # at'
    BY <1>0, <1>1 DEF ListsAreComplete
  <2> QED
    BY <1>0, <1>1, <2>1 DEF ListsAreComplete, Uncounted
<1>7. LateOnes' /\ AtMostOneSurvivor'
  BY <1>0, <1>1 DEF LateOnes, OneAtMost, AtMostOneSurvivor, stopper
<1> QED
  BY <1>5, <1>6, <1>7

LEMMA ChildKeeps ==
  ASSUME IInv, NEW s \in Service, Exit(s) \/ ContextKill(s) \/ Die(s)
  PROVE  IInv'
<1> USE DEF IInv
<1>1. /\ UNCHANGED <<signal, starter, stopper>>
      /\ child \in [Service -> {"none", "failed", "running", "killed", "exited"}]
      /\ child[s] \in Started
      /\ \E to \in {"killed", "exited"} : child' = [child EXCEPT ![s] = to]
  BY DEF Exit, ContextKill, Die, Becomes, TypeOK, Started
<1>2. /\ child' \in [Service -> {"none", "failed", "running", "killed", "exited"}]
      /\ \A r \in Service : /\ child'[r] = "running" => child[r] = "running"
                            /\ child'[r] \in Started <=> child[r] \in Started
  BY <1>1 DEF Started
<1>3. TypeOK'
  BY <1>1, <1>2 DEF TypeOK, starter, stopper, Started
<1>4. ListsAreComplete'
  BY <1>1, <1>2 DEF ListsAreComplete, Uncounted, starter
<1>5. \A S \in SUBSET Service : OneAtMost(S) => OneAtMost(S)'
  BY <1>1, <1>2, FewerRunKeeps DEF starter
<1>6. LateOnes' /\ AtMostOneSurvivor'
  BY <1>1, <1>2, <1>5 DEF LateOnes, AtMostOneSurvivor, stopper
<1> QED
  BY <1>3, <1>4, <1>6

LEMMA ForwardKeeps ==
  ASSUME IInv, Forward
  PROVE  IInv'
<1> USE DEF IInv
<1>1. /\ signal /\ main' = "grace" /\ main = "run" /\ snapshot' = cmds
      /\ UNCHANGED <<signal, at, step, tries, cmds, counted, child, drained>>
  BY DEF Forward, starter
<1>2. TypeOK'
  BY <1>1 DEF TypeOK
<1>3. ListsAreComplete'
  BY <1>1 DEF ListsAreComplete, Uncounted
<1>4. \A a \in Service \ cmds :
        child[a] = "running" => step = "list" /\ a = Services[at]
  <2> SUFFICES ASSUME NEW a \in Service, a \notin cmds, child[a] = "running"
               PROVE  step = "list" /\ a = Services[at]
    OBVIOUS
  <2>1. step = "list"
    BY DEF ListsAreComplete, Started
  <2>2. a \in Uncounted
    BY DEF ListsAreComplete, TypeOK, Started
  <2> QED
    BY <2>1, <2>2 DEF Uncounted
<1>5. OneAtMost(Service \ snapshot)'
  BY <1>1, <1>4 DEF OneAtMost
<1>6. LateOnes' /\ AtMostOneSurvivor'
  BY <1>1, <1>5 DEF LateOnes, AtMostOneSurvivor
<1> QED
  BY <1>2, <1>3, <1>6

LEMMA DrainKeeps ==
  ASSUME IInv, Drain
  PROVE  IInv'
<1> USE DEF IInv
<1>1. /\ main = "grace" /\ drained' = TRUE
      /\ \A s \in counted : child[s] = "exited"
      /\ UNCHANGED <<signal, at, step, tries, cmds, counted, child, main, snapshot>>
  BY DEF Drain, starter
<1>2. TypeOK'
  BY <1>1 DEF TypeOK
<1>3. ListsAreComplete'
  BY <1>1 DEF ListsAreComplete, Uncounted
<1>4. OneAtMost(Service)
  BY <1>1 DEF OneAtMost, ListsAreComplete, Uncounted, Started
<1>5. OneAtMost(Service)'
  BY <1>1, <1>4 DEF OneAtMost
<1>6. LateOnes'
  BY <1>1, <1>5 DEF LateOnes, OneAtMost, TypeOK
<1>7. AtMostOneSurvivor'
  BY <1>1 DEF AtMostOneSurvivor
<1> QED
  BY <1>2, <1>3, <1>6, <1>7

LEMMA EndKeeps ==
  ASSUME IInv, EndDrained \/ Timeout
  PROVE  IInv'
<1> USE DEF IInv
<1>1. /\ main = "grace" /\ main' = "ended" /\ signal
      /\ UNCHANGED <<signal, at, step, tries, cmds, counted, snapshot, drained>>
  BY DEF EndDrained, Timeout, starter, TypeOK
<1>2. /\ child' \in [Service -> {"none", "failed", "running", "killed", "exited"}]
      /\ \A r \in Service : child'[r] \in Started <=> child[r] \in Started
  BY DEF EndDrained, Timeout, TypeOK, Started
<1>3. TypeOK'
  BY <1>1, <1>2 DEF TypeOK, Started
<1>4. ListsAreComplete'
  BY <1>1, <1>2 DEF ListsAreComplete, Uncounted
<1>5. AtMostOneSurvivor'
  <2>1. CASE EndDrained
    BY <1>1, <2>1 DEF EndDrained, LateOnes, OneAtMost, AtMostOneSurvivor
  <2>2. CASE Timeout
    <3>1. \A r \in Service : child'[r] = "running" => child[r] = "running" /\ r \notin snapshot
      BY <2>2 DEF Timeout
    <3> QED
      BY <1>1, <3>1 DEF LateOnes, OneAtMost, AtMostOneSurvivor
  <2> QED
    BY <2>1, <2>2
<1>6. LateOnes'
  BY <1>1 DEF LateOnes
<1> QED
  BY <1>3, <1>4, <1>5, <1>6

LEMMA NextKeeps == IInv /\ [Next]_vars => IInv'
<1> SUFFICES ASSUME IInv, [Next]_vars
             PROVE  IInv'
  OBVIOUS
<1>1. CASE UNCHANGED vars
  BY <1>1 DEF vars, starter, stopper, IInv, TypeOK, ListsAreComplete, Uncounted,
              LateOnes, OneAtMost, AtMostOneSurvivor
<1> QED
  BY <1>1, SignalKeeps, KafkaKeeps, CheckKeeps, ForkKeeps, ListKeeps, CountKeeps,
     ChildKeeps, ForwardKeeps, DrainKeeps, EndKeeps
     DEF Next, Starting, Stopping

-----------------------------------------------------------------------------
(* The theorems                                                            *)

\* The inductive invariant holds, for all services and any wait for Kafka.
THEOREM InvariantHolds == Spec => []IInv
BY InitEstablishes, NextKeeps, PTL DEF Spec

\* The variables keep their types; the WaitGroup and the snapshot hold only
\* children that main knows of and that did start.
THEOREM TypeCorrect == Spec => []TypeOK
<1>1. IInv => TypeOK
  BY DEF IInv
<1> QED
  BY <1>1, InvariantHolds, PTL

\* Whenever the signal comes and whichever way the runner ends, at most one
\* child is left running.
THEOREM FewSurvive == Spec => []AtMostOneSurvivor
<1>1. IInv => AtMostOneSurvivor
  BY DEF IInv
<1> QED
  BY <1>1, InvariantHolds, PTL

=============================================================================
