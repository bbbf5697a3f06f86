----------------------------- MODULE MC_EtcdQueue -----------------------------
(* A small instance of EtcdQueue for TLC. *)
EXTENDS EtcdQueue

CONSTANTS m1, m2, h1, h2, s1, s2

\* One topic with two consumers over gRPC: the builders.
OneTopic == [m \in Messages |-> "builder"]
OneTopicClients == [h \in Handlers |-> "builder"]
GrpcClients == [h \in Handlers |-> "grpc"]

\* No registered topic is a prefix of another.
PrefixFree == [t \in Topics |-> {t}]

\* One of the tasks is sent over REST.
MixedApis == [m \in Messages |-> IF m = m1 THEN "rest" ELSE "grpc"]
==============================================================================
