--------------------------- MODULE MCNUMAScheduler ---------------------------
(***************************************************************************)
(* Two NUMA nodes with one CPU each, two tasks, each of which may block  *)
(* once, and up to two enable/disable calls: enough for a node to lose its *)
(* only CPU while tasks are queued or counted in it.                       *)
(***************************************************************************)
EXTENDS NUMAScheduler

MCCPUs == {"cpu0", "cpu1"}
MCNodeOf == [c \in MCCPUs |-> IF c = "cpu0" THEN 0 ELSE 1]
MCTasks == {"t1", "t2"}

====
