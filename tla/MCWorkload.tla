----------------------------- MODULE MCWorkload -----------------------------
(* Sets of workloads for the instances of the two queues that TLC checks. *)
EXTENDS BenchWorkload, Integers, FiniteSetsExt

\* Any operations at all.
AllWorkloads == [Workers -> [1..OpsPerThread -> Ops]]

\* The operations of kind op in all the slices of a workload.
Count(load, op) ==
  MapThenSumSet(LAMBDA w : Cardinality({i \in 1..OpsPerThread : load[w][i] = op}),
                Workers)

\* Every worker only adds or only removes, so no worker ever waits for its own
\* next operation.
Split(load) ==
  \A w \in Workers : \A i, j \in 1..OpsPerThread : load[w][i] = load[w][j]

\* The queue may run empty and full on the way, but what is left over fits.
BalancedWorkloads ==
  {load \in AllWorkloads :
     Split(load)
       /\ Prefill + Count(load, "add") - Count(load, "remove") \in 0..Capacity}
=============================================================================
