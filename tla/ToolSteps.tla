----------------------------- MODULE ToolSteps -----------------------------
(***************************************************************************)
(* The vocabulary that the tools of agent/tools are described in.          *)
(***************************************************************************)
(* What a request can meet: the system is not reached; no answer comes in  *)
(* time; an error status, or a command's exit code; a body that cannot be  *)
(* parsed, or is an object without any of the keys that the tool looks for.*)
Faults == {"refused", "lost", "status", "garbled"}

(* How a tool ends: a report, also one that there is nothing; a text that  *)
(* says something is wrong; None or an empty text; an exception that leaves*)
(* the tool.                                                               *)
Endings == {"report", "problem", "blank", "raised"}

(* What the code makes of a fault: it ends the tool, or the tool goes on,  *)
(* having dealt with it or as if nothing was wrong.                        *)
Responses == Endings \cup {"handled", "ignored"}

Changes == {"build", "incident", "note", "plan", "apply", "destroy"}

(* After a step the tool goes on, may stop with its report, stops with it, *)
(* or fails on what it got.                                                *)
Continuations == {"more", "any", "done", "raised"}

Step == [change : Changes \cup {"none"}, on : [Faults -> SUBSET Responses],
         then : Continuations, timed : BOOLEAN, optional : BOOLEAN,
         repeated : BOOLEAN, partial : BOOLEAN]
=============================================================================
