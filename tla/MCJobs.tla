------------------------------- MODULE MCJobs --------------------------------
(* A job and a job on a pseudo terminal; scripts wait for one or both.       *)
(* The first writes more than its ring buffer holds.                         *)
EXTENDS Jobs

CONSTANTS uv, pty

MCLists == {<<uv>>, <<pty, uv>>}
MCOutput == uv :> 2 @@ pty :> 0
=============================================================================
