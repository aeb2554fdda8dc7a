-------------------------- MODULE MC_MPMCQueueSize --------------------------
(***************************************************************************)
(* The threaded queue test with an extra thread calling size(), as demo.cpp *)
(* calls get_queue_size() while producers and the worker run.              *)
(***************************************************************************)
EXTENDS MC_MPMCQueue

\* An observer thread calls size() at any time.
ObserverStep(o) == (SizeLoadHead(o) \/ SizeLoadTail(o)) /\ UNCHANGED sent

SizeNext == Next \/ \E o \in Observers : ObserverStep(o)

SizeSpec == Init /\ [][SizeNext]_vars
====
