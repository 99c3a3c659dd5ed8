---------------------------- MODULE MCScheduler ----------------------------
EXTENDS Scheduler, TLC

Symmetric == Permutations(Worker) \cup Permutations(Sandbox)

=============================================================================
