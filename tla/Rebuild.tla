-------------------------------- MODULE Rebuild --------------------------------
(***************************************************************************)
(* What an incremental compiler promises (docs/specs/compile.md): nothing  *)
(* of how it works shows but the time it takes.  Whenever it takes its     *)
(* output for current, the output is what a compile from nothing would     *)
(* write, and it is replaced as a whole.                                   *)
(***************************************************************************)
CONSTANT Result(_)  \* what a compile from nothing writes for these sources
VARIABLES source, output, current

Init == current = FALSE

(* The sources change, perhaps back to what was compiled, or someone        *)
(* touches the output.                                                     *)
Disturb == current' => output' = output /\ output = Result(source')

(* A compile succeeds.                                                     *)
Build == source' = source /\ output' = Result(source) /\ current'

Next == Disturb \/ Build

Spec == Init /\ [][Next]_<< source, output, current >>

(* A target reported up to date holds what its sources say.                *)
CurrentIsExact == current => output = Result(source)
===============================================================================
