----------------------------- MODULE ShellSession -----------------------------
(***************************************************************************)
(* The shell on the bootstrap console. It comes online and then reads      *)
(* lines for ever: a user and a password until somebody is logged in, and  *)
(* commands after that. What is not built in is an external image that the *)
(* shell reads, checks and calls; LOGIN is one of them.                    *)
(*                                                                         *)
(* The shell is a record; every operation gives the shell it leaves and a  *)
(* status. Output, prompts and the working directory are left out, and so  *)
(* is the upper-casing of commands after a login, which always succeeds.   *)
(***************************************************************************)
EXTENDS Integers

CONSTANTS
  InstalledImages,   \* paths of LosShellRuntimeInstalledUserImages
  LinkedImages,      \* those whose bytes the link has put behind their symbols
  Builtins           \* the commands LosShellHandleBuiltin knows

ASSUME ImageAssumption == LinkedImages \subseteq InstalledImages

(* LOGIN is not built in, and the build leaves the symbols of its image    *)
(* undefined.                                                              *)
ASSUME LoginAssumption == "LOGIN" \notin LinkedImages \cup Builtins

NoShell ==
  [online |-> FALSE, required |-> FALSE, authenticated |-> FALSE, launch |-> "SUCCESS"]

BringShellOnline == [NoShell EXCEPT !.online = TRUE, !.required = TRUE]

-----------------------------------------------------------------------------
(* Calling an image. The symbols of an image that is not linked are weak   *)
(* and both zero: reading it succeeds, with no bytes.                      *)

ReadImage(path) ==
  IF path \notin InstalledImages THEN "NOT_FOUND"
  ELSE IF path \notin LinkedImages THEN "empty"
  ELSE "image"

(* No isolated space is to be had in the kernel, so an image that is there *)
(* is called where it lies, and its own answer is the call's.              *)
LoadAndCall(path, returned) ==
  [NOT_FOUND |-> "NOT_FOUND", empty |-> "LAUNCH_FAILED", image |-> returned][ReadImage(path)]

(* The completion record says TRANSITION_FAILED before the call and takes  *)
(* the status of a call that fails. Only the way back from ring 3 writes a *)
(* success into it, and this call is none.                                 *)
InvokeImage(path, returned) ==
  LET status == LoadAndCall(path, returned)
  IN  IF status = "SUCCESS" THEN "TRANSITION_FAILED" ELSE status

KnownStatuses ==
  {"INVALID_PARAMETER", "ACCESS_DENIED", "TRUNCATED", "NOT_FOUND", "UNSUPPORTED"}

LaunchExternalCommand(path, returned) ==
  LET status == InvokeImage(path, returned)
  IN  IF status \in KnownStatuses THEN status ELSE "LAUNCH_FAILED"

(* The login adapter inside the shell stands in for LOGIN only when the    *)
(* launch says UNSUPPORTED; its answer is a parameter.                     *)
LaunchExternal(path, returned, adapter) ==
  LET status == LaunchExternalCommand(path, returned)
  IN  CASE status = "ACCESS_DENIED" -> status
        [] status = "UNSUPPORTED" /\ path = "LOGIN" -> adapter
        [] OTHER -> "LAUNCH_FAILED"

-----------------------------------------------------------------------------
LoginCommand == [name |-> "LOGIN", run |-> FALSE]

(* What LOGIN itself returns, and what the adapter does.                   *)
ImageAnswers == {"SUCCESS", "INVALID_PARAMETER", "ACCESS_DENIED", "LAUNCH_FAILED"}
AdapterAnswers == {"SUCCESS", "INVALID_PARAMETER", "ACCESS_DENIED"}

(* A command: its first word, and whether "run" stood before it. The       *)
(* result that a call of an image leaves is always that of the record, 0.  *)
Execute(shell, command, returned, adapter) ==
  LET status == LaunchExternal(command.name, returned, adapter)
      launched == [shell EXCEPT !.launch = status]
  IN  CASE shell.required /\ ~shell.authenticated /\ command.name # "LOGIN" ->
             [shell |-> shell, status |-> "RETRY"]
        [] (shell.authenticated \/ command.name = "LOGIN")
           /\ command.name \in Builtins /\ ~command.run ->
             [shell |-> shell, status |-> "SUCCESS"]
        [] OTHER ->
             [shell |-> [launched EXCEPT !.authenticated =
                           CASE command.name = "LOGIN" /\ status = "SUCCESS" -> TRUE
                             [] command.name = "LOGIN" /\ status = "ACCESS_DENIED" -> FALSE
                             [] OTHER -> @],
              status |-> status]

=============================================================================
