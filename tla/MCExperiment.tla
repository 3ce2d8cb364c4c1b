---------------------------- MODULE MCExperiment ----------------------------
(* An instance of Experiment: two of the synthetic topologies with each    *)
(* service as the target, the mutex example, an application whose services *)
(* have different quotas and of which one is not used, and one that serves *)
(* less than a request in a second.                                        *)
EXTENDS Experiment, TLC

Topologies == {"dynamic_cache", "chain_d2"}
Numbers == {<<203, 410, 897>>, <<500, 500, 501>>}

MCBenchmarks ==
  {synthetic(topology, target, numbers) :
     topology \in Topologies, target \in 0..2, numbers \in Numbers}
  \cup {Benchmark(0 :> 4 @@ 1 :> 4, 0 :> 800 @@ 1 :> 350, 0 :> 2 @@ 1 :> 2, 0, 400),
        Benchmark(0 :> 4 @@ 1 :> 3 @@ 2 :> 0, 0 :> 105 @@ 1 :> 1000 @@ 2 :> 0,
                  0 :> 3 @@ 1 :> 2 @@ 2 :> 2, 1, 0),
        Benchmark(0 :> 4 @@ 1 :> 4, 0 :> 100000 @@ 1 :> 7, 0 :> 2 @@ 1 :> 2, 1, 0)}
=============================================================================
