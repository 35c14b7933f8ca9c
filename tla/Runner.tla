------------------------------- MODULE Runner -------------------------------
(***************************************************************************)
(* The process that starts all services in one container (cmd/runner): the *)
(* main goroutine starts the first ones, waits for a signal and stops what *)
(* it knows of; another goroutine waits for Kafka and starts the rest, and *)
(* may be at it when the signal comes.  Each child is killed by os/exec as *)
(* soon as the signal has cancelled the context it was started with.       *)
(***************************************************************************)
EXTENDS Naturals, Sequences

CONSTANTS
  Phase1,   \* the services started at once, in order
  Phase2,   \* those started when Kafka is there
  MaxTries  \* how often Kafka is dialled, 30 in the code

Services == Phase1 \o Phase2
Service == {Services[i] : i \in 1 .. Len(Services)}

ASSUME RunnerAssumption ==
  /\ Phase1 \in Seq(Service) /\ Phase2 \in Seq(Service)
  /\ \A i, j \in 1 .. Len(Services) : Services[i] = Services[j] => i = j
  /\ MaxTries \in Nat

VARIABLES
  signal,    \* SIGTERM or SIGINT has come: ctx is done
  at,        \* the position in Services of the service to start
  step,      \* what is next for it: "kafka" (wait), "check" (ctx), "fork",
             \*                      "list" (append to cmds), "count" (wg.Add)
  tries,     \* how often Kafka was dialled in vain
  child,     \* child[s]: "none", "failed" (did not start), "running",
             \*           "killed" (SIGKILL sent) or "exited"
  cmds,      \* the children main knows of
  counted,   \* the children the WaitGroup has counted
  main,      \* main goroutine: "run", "grace" (SIGTERM sent) or "ended"
  snapshot,  \* the children main stops
  drained    \* wg.Wait has returned

starter == <<at, step, tries, cmds, counted>>
stopper == <<main, snapshot, drained>>
vars == <<signal, starter, child, stopper>>

TypeOK ==
  /\ signal \in BOOLEAN /\ drained \in BOOLEAN
  /\ at \in 1 .. Len(Services) + 1
  /\ step \in {"kafka", "check", "fork", "list", "count"}
  /\ tries \in 0 .. MaxTries
  /\ child \in [Service -> {"none", "failed", "running", "killed", "exited"}]
  /\ counted \subseteq cmds /\ snapshot \subseteq cmds
  /\ cmds \subseteq {s \in Service : child[s] \in {"running", "killed", "exited"}}
  /\ main \in {"run", "grace", "ended"}
  /\ main # "run" => signal

\* What is next for the service at position i.
FirstStep(i) == IF i = Len(Phase1) + 1 THEN "kafka" ELSE "check"

Init ==
  /\ signal = FALSE
  /\ at = 1
  /\ step = FirstStep(1)
  /\ tries = 0
  /\ child = [s \in Service |-> "none"]
  /\ cmds = {}
  /\ counted = {}
  /\ main = "run"
  /\ snapshot = {}
  /\ drained = FALSE

\* SIGTERM or SIGINT.
Signal ==
  /\ signal' = TRUE
  /\ UNCHANGED <<starter, child, stopper>>

-----------------------------------------------------------------------------
(* startService, for one service after the other                           *)

\* The starting goroutine is at step k of some service.
AtStep(k) == main # "ended" /\ at <= Len(Services) /\ step = k

Turn == at' = at + 1 /\ step' = FirstStep(at + 1)

\* waitForKafka: a dial succeeds.  ctx plays no part in the wait.
KafkaReachable ==
  /\ AtStep("kafka")
  /\ step' = "check"
  /\ UNCHANGED <<signal, at, tries, cmds, counted, child, stopper>>

\* Mutant: the wait begins anew when the dials are used up.
KafkaRefusedForEver ==
  /\ AtStep("kafka")
  /\ tries' = IF tries < MaxTries THEN tries + 1 ELSE 0
  /\ UNCHANGED <<signal, at, step, cmds, counted, child, stopper>>

\* A dial fails: the next one, or the services are started anyway.
KafkaRefused ==
  /\ AtStep("kafka")
  /\ IF tries < MaxTries THEN tries' = tries + 1 /\ UNCHANGED step
                         ELSE step' = "check" /\ UNCHANGED tries
  /\ UNCHANGED <<signal, at, cmds, counted, child, stopper>>

\* Mutant: plain exec.Command, which has no context to look at.
CheckNothing ==
  /\ AtStep("check")
  /\ step' = "fork"
  /\ UNCHANGED <<signal, at, tries, cmds, counted, child, stopper>>

\* cmd.Start looks at ctx first.
CheckContext ==
  /\ AtStep("check")
  /\ IF signal THEN /\ child' = [child EXCEPT ![Services[at]] = "failed"]
                    /\ Turn
               ELSE step' = "fork" /\ UNCHANGED <<at, child>>
  /\ UNCHANGED <<signal, tries, cmds, counted, stopper>>

\* Mutant: no return after the warning.
ForkNoReturn ==
  /\ AtStep("fork")
  /\ \E c \in {"running", "failed"} : child' = [child EXCEPT ![Services[at]] = c]
  /\ step' = "list"
  /\ UNCHANGED <<signal, at, tries, cmds, counted, stopper>>

\* Then it forks, which may fail too: startService warns and returns.
Fork ==
  /\ AtStep("fork")
  /\ \/ /\ child' = [child EXCEPT ![Services[at]] = "running"]
        /\ step' = "list"
        /\ UNCHANGED at
     \/ /\ child' = [child EXCEPT ![Services[at]] = "failed"]
        /\ Turn
  /\ UNCHANGED <<signal, tries, cmds, counted, stopper>>

\* cmds = append(cmds, cmd), under the mutex.
List ==
  /\ AtStep("list")
  /\ cmds' = cmds \cup {Services[at]}
  /\ step' = "count"
  /\ UNCHANGED <<signal, at, tries, counted, child, stopper>>

\* wg.Add(1), and a goroutine that waits for the child.
Count ==
  /\ AtStep("count")
  /\ counted' = counted \cup {Services[at]}
  /\ Turn
  /\ UNCHANGED <<signal, tries, cmds, child, stopper>>

-----------------------------------------------------------------------------
(* The children                                                            *)

Becomes(s, from, to) ==
  /\ child[s] = from
  /\ child' = [child EXCEPT ![s] = to]
  /\ UNCHANGED <<signal, starter, stopper>>

\* A child ends by itself, or because of SIGTERM.  Nobody starts it again.
Exit(s) == Becomes(s, "running", "exited")

\* os/exec kills a child whose context is done, while the runner is there.
ContextKill(s) ==
  /\ signal /\ main # "ended"
  /\ Becomes(s, "running", "killed")

\* SIGKILL takes effect.
Die(s) == Becomes(s, "killed", "exited")

-----------------------------------------------------------------------------
(* The end of main                                                         *)

\* Main has started phase 1 and sees the signal: it copies cmds and sends
\* SIGTERM to each.
Forward ==
  /\ main = "run" /\ signal
  /\ at > Len(Phase1)
  /\ snapshot' = cmds
  /\ main' = "grace"
  /\ UNCHANGED <<signal, starter, child, drained>>

\* wg.Wait returns when it has seen no child that is counted and not waited
\* for; a child counted later does not matter to it.
Drain ==
  /\ main = "grace"
  /\ \A s \in counted : child[s] = "exited"
  /\ drained' = TRUE
  /\ UNCHANGED <<signal, starter, child, main, snapshot>>

\* select: done is closed.
EndDrained ==
  /\ main = "grace" /\ drained
  /\ main' = "ended"
  /\ UNCHANGED <<signal, starter, child, snapshot, drained>>

\* Mutant: there is no timeout.
TimeoutNever == FALSE /\ UNCHANGED vars

\* select: the ten seconds are over.  What main knows of is killed.
Timeout ==
  /\ main = "grace"
  /\ main' = "ended"
  /\ child' = [s \in Service |->
                 IF s \in snapshot /\ child[s] = "running" THEN "killed" ELSE child[s]]
  /\ UNCHANGED <<signal, starter, snapshot, drained>>

-----------------------------------------------------------------------------
Starting ==
  KafkaReachable \/ KafkaRefused \/ CheckContext \/ Fork \/ List \/ Count

Stopping == Forward \/ Drain \/ EndDrained \/ Timeout

Next ==
  \/ Signal \/ Starting \/ Stopping
  \/ \E s \in Service : Exit(s) \/ ContextKill(s) \/ Die(s)

Spec == Init /\ [][Next]_vars

\* The goroutines run and the timer expires.  Kafka need not answer, and no
\* child need obey a signal.
FairSpec ==
  Spec /\ WF_vars(Starting) /\ WF_vars(Forward) /\ WF_vars(EndDrained \/ Timeout)

-----------------------------------------------------------------------------
\* At most one child outlives the runner without having been killed, although
\* phase 2 may be under way when main makes its snapshot: the one whose
\* cmd.Start had looked at the context before the signal.
AtMostOneSurvivor ==
  main = "ended" =>
    \A a, b \in Service : child[a] = "running" /\ child[b] = "running" => a = b

\* A signal ends the runner, whatever its children do.
RunnerEnds == signal ~> main = "ended"

\* Unless it is stopped, the runner tries to start every service in the end,
\* with Kafka or without, and though others fail to start or exit.
AllServicesStart == <>(signal \/ \A s \in Service : child[s] # "none")

\* "On SIGTERM/SIGINT it forwards the signal to every child and waits for
\* graceful shutdown": only what is left after the grace window is killed.
KilledAfterGrace ==
  [][\A s \in Service :
       child[s] = "running" /\ child'[s] = "killed" =>
         main = "grace" /\ main' = "ended"]_vars

=============================================================================
