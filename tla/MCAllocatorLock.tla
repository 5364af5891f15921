-------------------------- MODULE MCAllocatorLock --------------------------
(* The kernel on two CPUs, where every allocation is a malloc, and the     *)
(* host tests with three threads and every entry point.                    *)
EXTENDS AllocatorLock

CONSTANTS c1, c2, c3, b1, b2

MCSystems ==
  {[freestanding |-> TRUE, cpus |-> {c1, c2}, blocks |-> {b1},
    calls |-> {"malloc", "free", "libstdc_allocator_initialize"}],
   [freestanding |-> FALSE, cpus |-> {c1, c2, c3}, blocks |-> {b1, b2},
    calls |-> Operations]}
=============================================================================
