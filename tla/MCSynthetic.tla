----------------------------- MODULE MCSynthetic -----------------------------
(* An instance of Synthetic: applications of up to three services, each in *)
(* the form of one of the repository's benchmarks, and one that describes  *)
(* an HTTP call in a gRPC service.                                         *)
EXTENDS Synthetic, TLC

CONSTANTS s1, s2, s3

Called(s, protocol, ratio, probability) ==
  [service |-> s, endpoint |-> "ep", protocol |-> protocol, ratio |-> ratio,
   probability |-> probability]
Ep(threads, async, calls) ==
  [ep |-> [threads |-> threads, locked |-> FALSE, network |-> [async |-> async, calls |-> calls]]]
Leaf == Ep(1, FALSE, <<>>)

App(protocol, endpoints) == [entry |-> <<s1, "ep">>, protocol |-> protocol, endpoints |-> endpoints]
OverHTTP == [s \in Services |-> "http"]
OverGRPC == [s \in Services |-> IF s = s1 THEN "http" ELSE "grpc"]

\* fanout-w3-grpc-async, narrower and with a forward ratio of 2
FanOut == App(OverGRPC, s1 :> Ep(1, TRUE, <<Called(s2, "grpc", 2, 0)>>) @@ s2 :> Leaf @@ s3 :> Leaf)
Chain == App(OverGRPC, s1 :> Ep(0, FALSE, <<Called(s2, "grpc", 1, 0)>>)
                    @@ s2 :> Ep(0, FALSE, <<Called(s3, "grpc", 1, 0)>>) @@ s3 :> Leaf)
DynamicOnce == App(OverHTTP, s1 :> Ep(0, TRUE, <<Called(s2, "http", 1, 40), Called(s3, "http", 1, 60)>>)
                    @@ s2 :> Leaf @@ s3 :> Leaf)
DynamicCache == App(OverHTTP, s1 :> Ep(2, FALSE, <<Called(s2, "http", 1, 80)>>) @@ s2 :> Leaf @@ s3 :> Leaf)
Mixed == App(OverGRPC, s1 :> Ep(0, FALSE, <<Called(s2, "grpc", 1, 0)>>)
                    @@ s2 :> Ep(0, FALSE, <<Called(s3, "http", 1, 0)>>) @@ s3 :> Leaf)

MCConfigs == {FanOut, Chain, DynamicOnce, DynamicCache, Mixed, mutex(s1, s2)}
=============================================================================
