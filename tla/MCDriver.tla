------------------------------ MODULE MCDriver ------------------------------
(* Instances of Driver for TLC. *)
EXTENDS Driver

Trace(weight, ids, ops, ignore, lines) ==
  [weight |-> weight, num_ids |-> ids, num_ops |-> ops, ignore_ranges |-> ignore,
   lines |-> lines]

\* A block grows in place of a smaller one, which could be enclosed; one leaks.
MCFile ==
  [full |-> Trace(1, 2, 4, 0, <<Alloc(0, 1), Alloc(1, 4), Resize(0, 3), Release(1)>>),
   loose |-> Trace(0, 2, 5, 1, <<Alloc(0, 2), Resize(1, 1), Release(0), Resize(1, 0), Release(-1)>>),
   broken |-> Trace(1, 3, 1, 0, <<Alloc(0, 1)>>)]

Cmd(files, debug, onetime, libc, timeout) ==
  [files |-> files, debug |-> debug, onetime |-> onetime, run_libc |-> libc,
   timeout |-> timeout]

MCOptions ==
  {Cmd(<<"full">>, 1, FALSE, FALSE, FALSE),
   Cmd(<<"full">>, 2, TRUE, FALSE, TRUE),
   Cmd(<<"loose">>, 1, FALSE, TRUE, TRUE),
   Cmd(<<"loose", "loose">>, 0, FALSE, FALSE, TRUE),
   Cmd(<<"loose", "broken">>, 2, FALSE, FALSE, FALSE)}

MCAddress == {-2, 0, 1, 2, 4, 6, 8}

MCEvents == {<<1, 3>>, <<5, 3>>, <<1, 1>>}
=============================================================================
