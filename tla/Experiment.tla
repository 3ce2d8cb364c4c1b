----------------------------- MODULE Experiment -----------------------------
(***************************************************************************)
(* The orchestrator (src/src/main.py), the script it calls for every       *)
(* measurement (src/src/run.sh) and the tables it reads                    *)
(* (src/src/config.py). For each processing time that the target service   *)
(* might have after an optimisation, the throughput is measured once with  *)
(* that time, and once with the old time and all other services slowed     *)
(* down; from the second measurement the first one is predicted.           *)
(*                                                                         *)
(* The cluster is external. It is idealised to what the method assumes: a  *)
(* request costs every service its share of requests times the time of one *)
(* and the delay it is charged (SlowpokePokerPPDelay), and the throughput  *)
(* is that of the service with the highest cost. A throughput is recorded  *)
(* by its inverse, the cost of a request at the bottleneck, in units of    *)
(* 1/(Ratios * CPUs) microseconds; 0 is the throughput 0.                  *)
(***************************************************************************)
EXTENDS Integers, Sequences, FiniteSetsExt

CONSTANTS Benchmarks,    \* see Benchmark
          Ratios,        \* request ratios are multiples of 1/Ratios
          CPUs,          \* a multiple of all quotas
          Second,        \* the cost at which the throughput is 1
          NumExp,        \* target_num_exp
          Repetitions,
          MaxFailures    \* measurements that fail

ASSUME ExperimentAssumption ==
  /\ NumExp \in Nat \ {0} /\ Repetitions \in Nat /\ MaxFailures \in Nat
  /\ CPUs \in Nat \ {0} /\ Second \in Nat
  /\ \A b \in Benchmarks :
       /\ IsFiniteSet(DOMAIN b.time) /\ b.target \in DOMAIN b.time
       /\ b.time \in [DOMAIN b.time -> Nat] /\ b.ratio \in [DOMAIN b.time -> Nat]
       /\ b.quota \in [DOMAIN b.time -> Nat \ {0}]
       /\ \A s \in DOMAIN b.quota : CPUs % b.quota[s] = 0
       /\ b.low \in Nat /\ (b.time[b.target] - b.low) \div NumExp > 0

VARIABLES benchmark,
          repetition, stage, i,      \* where run() is
          service_delay, processing_time,
          groundtruth, slowdown, predicted,
          summary,                   \* what the finished runs have found
          sh,                        \* where run.sh is
          env,                       \* the environment it was started with
          res,                       \* the throughput that exp returns
          pods,                      \* that exist in the cluster
          failures

lists == <<groundtruth, slowdown, predicted>>
runner == <<repetition, stage, i, service_delay, processing_time, lists, summary>>
experimentVars == <<benchmark, runner, sh, env, res, pods, failures>>

-----------------------------------------------------------------------------
(* Tables. Services are numbered from 0. *)
service_reuse == [dynamic_cache |-> <<4, 4, 1>>, chain_d2 |-> <<4, 4, 4>>]
leaf_nodes == [dynamic_cache |-> {2}, chain_d2 |-> {2}]

get_request_ratio_synthetic(topology) ==
  LET ratio_arr == service_reuse[topology]
  IN [s \in 0..(Len(ratio_arr) - 1) |-> ratio_arr[s + 1]]

(* The largest of the sorted random numbers goes to service 0, and so on;  *)
(* the target gets twice its share when it is a leaf.                      *)
get_baseline_service_processing_time_synthetic(target, topology, random_numbers) ==
  LET num == Len(service_reuse[topology]) IN
  [s \in 0..(num - 1) |->
     LET times == IF s = target /\ s \in leaf_nodes[topology] THEN 2 ELSE 1
     IN (times * random_numbers[num - s] * Ratios) \div service_reuse[topology][s + 1]]

get_cpu_quota_synthetic(topology) == [s \in 0..(Len(service_reuse[topology]) - 1) |-> 2]

Benchmark(ratio, time, quota, target, low) ==
  [ratio |-> ratio, time |-> time, quota |-> quota, target |-> target, low |-> low]

synthetic(topology, target, random_numbers) ==
  Benchmark(get_request_ratio_synthetic(topology),
            get_baseline_service_processing_time_synthetic(target, topology, random_numbers),
            get_cpu_quota_synthetic(topology), target, 0)

-----------------------------------------------------------------------------
(* The cluster. *)
Services == DOMAIN benchmark.time
Pod(s, time, delay, status) == [service |-> s, time |-> time, delay |-> delay, status |-> status]

Cost(p) ==
  benchmark.ratio[p.service] *
    (p.time * (CPUs \div benchmark.quota[p.service]) + p.delay * CPUs)
Throughput(serving) == Max({Cost(p) : p \in serving})

(* Python prints the quotient as a decimal fraction, Go reads the digits   *)
(* before the point.                                                       *)
SlowpokeInit(delay, quota) == delay \div quota

delete ==
  /\ sh = "delete" /\ sh' = "wait"
  /\ pods' = {[p EXCEPT !.status = "ending"] : p \in pods}
  /\ UNCHANGED <<benchmark, runner, env, res, failures>>

PodStarts(p) ==
  /\ p.status = "starting"
  /\ pods' = (pods \ {p}) \cup {[p EXCEPT !.status = "running"]}
  /\ UNCHANGED <<benchmark, runner, sh, env, res, failures>>

PodEnds(p) ==
  /\ p.status = "ending"
  /\ pods' = pods \ {p}
  /\ UNCHANGED <<benchmark, runner, sh, env, res, failures>>

deploy ==
  /\ sh = "wait" /\ pods = {} /\ sh' = "ready"
  /\ pods' = {Pod(s, env.time[s], SlowpokeInit(env.delay[s], benchmark.quota[s]), "starting")
                : s \in Services}
  /\ UNCHANGED <<benchmark, runner, env, res, failures>>

(* The test fails with the status of wrk, or one pod of each service       *)
(* serves it. When wrk ends without having received all answers it prints  *)
(* no times; their mean is then a division by zero, which ends main.py.    *)
run_test ==
  /\ sh = "ready" /\ \A p \in pods : p.status # "starting"
  /\ UNCHANGED <<benchmark, repetition, i, service_delay, processing_time, lists, summary, env, pods>>
  /\ \/ \E serving \in SUBSET pods :
          /\ \A s \in Services : Cardinality({p \in serving : p.service = s}) = 1
          /\ sh' = "returned" /\ res' = Throughput(serving)
          /\ UNCHANGED <<stage, failures>>
     \/ /\ failures < MaxFailures /\ failures' = failures + 1
        /\ sh' = "returned" /\ res' = 0
        /\ UNCHANGED stage
     \/ /\ failures < MaxFailures /\ failures' = failures + 1
        /\ sh' = "none" /\ stage' = "aborted"
        /\ UNCHANGED res

-----------------------------------------------------------------------------
(* The orchestrator. *)
Target == benchmark.target
T == benchmark.time[Target]

processing_time_range ==
  LET step == (T - benchmark.low) \div NumExp
  IN [n \in 1..NumExp |-> benchmark.low + (n - 1) * step]

exp(delay, time) ==
  /\ service_delay' = delay /\ processing_time' = time
  /\ env' = [delay |-> delay, time |-> time]
  /\ sh' = "delete"

(* Mutant: the loop tests the old result again. *)
RerunNothing == UNCHANGED <<service_delay, processing_time, env, sh>>
Rerun == exp(service_delay, processing_time)

Undelayed == [s \in Services |-> 0]
With(p_t) == [processing_time EXCEPT ![Target] = p_t]

(* Mutant: the delays of the last experiment are kept. *)
DelaysKept(n) == exp(service_delay, With(processing_time_range[n]))
Groundtruth(n) == exp(Undelayed, With(processing_time_range[n]))

(* What the target would save goes to the other services: every request to *)
(* them is charged its part.                                               *)
Saved(p_t) == (T - p_t) * benchmark.ratio[Target]
Slowdowns(p_t) ==
  [s \in Services |->
     IF s = Target THEN service_delay[s]
     ELSE IF benchmark.ratio[s] = 0 THEN 0
     ELSE (Saved(p_t) * benchmark.quota[s]) \div (benchmark.ratio[s] * benchmark.quota[Target])]

Prediction(slow, p_t) == slow - Saved(p_t) * (CPUs \div benchmark.quota[Target])

run ==
  /\ stage = "start" /\ repetition < Repetitions
  /\ stage' = "baseline" /\ repetition' = repetition + 1
  /\ groundtruth' = <<>> /\ slowdown' = <<>> /\ predicted' = <<>>
  /\ exp(Undelayed, benchmark.time)
  /\ UNCHANGED <<benchmark, i, summary, res, pods, failures>>

(* int(res) == 0 is true of every throughput below 1. *)
IntIsZero == res = 0 \/ res > Second

Repeat ==
  /\ sh = "returned"
  /\ \/ stage = "baseline" /\ res = 0
     \/ stage \in {"groundtruth", "slowdown"} /\ IntIsZero
  /\ Rerun
  /\ UNCHANGED <<benchmark, repetition, stage, i, lists, summary, res, pods, failures>>

BaselineDone ==
  /\ sh = "returned" /\ stage = "baseline" /\ res # 0
  /\ stage' = "groundtruth" /\ i' = 1
  /\ Groundtruth(1)
  /\ UNCHANGED <<benchmark, repetition, lists, summary, res, pods, failures>>

GroundtruthDone ==
  /\ sh = "returned" /\ stage = "groundtruth" /\ ~IntIsZero
  /\ groundtruth' = Append(groundtruth, res)
  /\ stage' = "slowdown"
  /\ exp(Slowdowns(processing_time_range[i]), With(T))
  /\ UNCHANGED <<benchmark, repetition, i, slowdown, predicted, summary, res, pods, failures>>

SlowdownDone ==
  LET prediction == Prediction(res, processing_time_range[i]) IN
  /\ sh = "returned" /\ stage = "slowdown" /\ ~IntIsZero
  /\ slowdown' = Append(slowdown, res)
  /\ predicted' = Append(predicted, prediction)
  /\ IF i < NumExp
     THEN /\ stage' = "groundtruth" /\ i' = i + 1
          /\ Groundtruth(i + 1)
          /\ UNCHANGED summary
     ELSE /\ stage' = "start" /\ i' = 0 /\ sh' = "none"
          /\ summary' = Append(summary, [groundtruth |-> groundtruth, predicted |-> predicted'])
          /\ UNCHANGED <<service_delay, processing_time, env>>
  /\ UNCHANGED <<benchmark, repetition, groundtruth, res, pods, failures>>

print_summary ==
  /\ stage = "start" /\ repetition = Repetitions
  /\ stage' = "done"
  /\ UNCHANGED <<benchmark, repetition, i, service_delay, processing_time, lists, summary,
                 sh, env, res, pods, failures>>

ExperimentInit ==
  /\ benchmark \in Benchmarks
  /\ repetition = 0 /\ stage = "start" /\ i = 0
  /\ service_delay = Undelayed /\ processing_time = benchmark.time
  /\ groundtruth = <<>> /\ slowdown = <<>> /\ predicted = <<>> /\ summary = <<>>
  /\ sh = "none" /\ env = [delay |-> Undelayed, time |-> benchmark.time] /\ res = 0
  /\ pods = {} /\ failures = 0

Cluster == \E p \in pods : PodStarts(p) \/ PodEnds(p)
Script == delete \/ deploy \/ run_test
Runner == run \/ Repeat \/ BaselineDone \/ GroundtruthDone \/ SlowdownDone \/ print_summary
ExperimentNext == Cluster \/ Script \/ Runner

(* The scripts run, and Kubernetes starts and ends pods. *)
ExperimentSpec ==
  /\ ExperimentInit /\ [][ExperimentNext]_experimentVars
  /\ WF_experimentVars(Cluster) /\ WF_experimentVars(Script) /\ WF_experimentVars(Runner)

-----------------------------------------------------------------------------
(* What the method promises (main.py 161-173): when every service is the   *)
(* bottleneck or not by its cost alone, the throughput that is predicted   *)
(* from the slowed down services is the one that was measured with the     *)
(* faster target. It is off only by the fractions of a microsecond that    *)
(* were cut off, once where the delay becomes an integer and once where it *)
(* is read, and they always make the prediction too high, by less than one *)
(* microsecond for each request to a service. This holds for every         *)
(* experiment of every repetition, whatever was measured before.           *)
Predicted(measured, prediction) ==
  \A n \in DOMAIN prediction :
    /\ prediction[n] <= measured[n]
    /\ measured[n] - prediction[n] < CPUs * Max({benchmark.ratio[s] : s \in Services})
PredictionsHold ==
  /\ Predicted(groundtruth, predicted)
  /\ \A r \in DOMAIN summary : Predicted(summary[r].groundtruth, summary[r].predicted)

(* The orchestrator ends, with a result for every experiment or because a  *)
(* measurement did not finish, although measurements fail now and then.    *)
(* Only an application that serves less than one request in a second is    *)
(* measured for ever (main.py 149, 166).                                   *)
RunsEnd ==
  \/ <>(stage = "aborted")
  \/ <>(stage = "done" /\ Len(summary) = Repetitions
          /\ \A r \in 1..Repetitions : Len(summary[r].predicted) = NumExp)
  \/ <>(res > Second)
=============================================================================
