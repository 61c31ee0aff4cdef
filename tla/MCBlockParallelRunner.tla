----------------------- MODULE MCBlockParallelRunner -----------------------
(***************************************************************************)
(* A block with a captured value, a pphlo.free and two side effects that   *)
(* no operand orders:                                                      *)
(*                                                                         *)
(*   %1 = constant()                no operands                            *)
(*   %2 = multiply(%arg)            interactive                            *)
(*   %3 = case(%2) { uses %1 }      a region that captures %1, interactive *)
(*        free(%2)                  operation 4                            *)
(*   %5 = make_cached_var(%3)       has_side_effect, interactive           *)
(*   %6 = make_cached_var(%arg)     has_side_effect                        *)
(*   return %5, %6                                                         *)
(***************************************************************************)
EXTENDS BlockParallelRunner, TLC

MCNumOps == 6
MCOperands == << {}, {0}, {2}, {2}, {3}, {0} >>
MCCaptured == << {}, {}, {1}, {}, {}, {} >>
MCSideEffect == {5, 6}
MCDbgPrint == {}
MCFreeOp == {4}
MCInteractive == {2, 3, 5}
MCReturned == {5, 6}

\* The threads of a pool are interchangeable (safety only).
ThreadSymmetry == Permutations(Thread)

\* For liveness: two interactive operations that both workers can be in, a
\* debug print of the first and a side effect that needs both.
LiveNumOps == 4
LiveOperands == << {0}, {0}, {1}, {1, 2} >>
LiveCaptured == << {}, {}, {}, {} >>
LiveSideEffect == {3, 4}
LiveDbgPrint == {3}
LiveFreeOp == {}
LiveInteractive == {1, 2, 4}
LiveReturned == {4}

=============================================================================
