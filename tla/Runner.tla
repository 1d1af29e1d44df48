------------------------------- MODULE Runner -------------------------------
(***************************************************************************)
(* How the server sees the end of one CLI process.                         *)
(*                                                                         *)
(* Every operation of the server is a sequence of prlctl / prlsrvctl       *)
(* processes run by ExecRunner.Run.  What the callers branch on is not how *)
(* the process ended but what Run and ExecOS make of it, so both           *)
(* conversions are kept here and shared by the other modules.              *)
(***************************************************************************)

(***************************************************************************)
(* The ends of a process that callers can tell apart:                      *)
(*   exit0        it ran and exited 0                                      *)
(*   failed       it ran and exited non-zero: prlctl refused the request,  *)
(*                or the guest command under `prlctl exec` did             *)
(*   notExecuted  `prlctl exec` exited non-zero with a message such as     *)
(*                "Unable to execute": the guest command never ran         *)
(*   notStarted   no process was created (binary missing, fork failure, or *)
(*                a context that was already cancelled)                    *)
(*   killed       exec.CommandContext killed it: its context was cancelled *)
(***************************************************************************)
Ends == {"exit0", "failed", "notExecuted", "notStarted", "killed"}

(* The error a call can hold: none, an *ExitError, or ctx.Err(). *)
Errors == {"nil", "exit", "ctx"}

(* Plausible bug: the error is made from the exit code alone. *)
RunErr_FromCode(end, cancelled) == IF end \in {"exit0", "notStarted"} THEN "nil" ELSE "exit"

(* Run: nil on exit 0, ctx.Err() once the context is done, else *ExitError. *)
RunErr(end, cancelled) ==
  CASE end = "exit0" -> "nil"
    [] end # "exit0" /\ cancelled -> "ctx"
    [] OTHER -> "exit"

(***************************************************************************)
(* CmdResult.ExitCode = 0: besides exit 0, a process that was never        *)
(* created has no ProcessState and keeps the zero value.                   *)
(***************************************************************************)
ExitCodeZero(end) == end \in {"exit0", "notStarted"}

(* The message on stderr says that the guest command never ran. *)
LooksLikeExecFailure(end) == end = "notExecuted"

(***************************************************************************)
(* ExecOS: a cancelled context and a recognised "could not execute"        *)
(* message on stderr are errors; every other *ExitError is taken for the   *)
(* guest command's own exit code and returned with a nil error.            *)
(***************************************************************************)
ExecErr(end, cancelled) ==
  CASE end = "exit0" -> "nil"
    [] end # "exit0" /\ cancelled -> "ctx"
    [] LooksLikeExecFailure(end) /\ ~cancelled -> "exit"
    [] OTHER -> "nil"

(* What the callers of ExecOS take for success: nil error and exit code 0. *)
ExecSucceeds(end, cancelled) ==
  ExecErr(end, cancelled) = "nil" /\ ExitCodeZero(end)
=============================================================================
