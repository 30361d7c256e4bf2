----------------------------- MODULE MCAlertIpc -----------------------------
(* AlertIpc with an agent and the alert page publishing and two consumers. *)
EXTENDS AlertIpc, TLC

CONSTANTS agent, page, c1, c2

BothPublishers == {agent, page}
BothConsumers == {c1, c2}
OneConsumer == {c1}

AnyKind == Kinds
Repairable == Kinds \ {"release"}
BelowRequest == Kinds \ {"request"}

Symmetry == Permutations(BothPublishers) \cup Permutations(BothConsumers)
=============================================================================
