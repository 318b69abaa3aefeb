------------------------------ MODULE MCCron ------------------------------
(* Instances of Cron for TLC. *)
EXTENDS Cron

\* A prompt and a command that are skipped while the run before is not over, and
\* a command that runs once, is started anyway and never told.
Prompt == [command |-> FALSE, once |-> FALSE, overlap |-> "skip", notify |-> "always"]
AllJobs ==
    {Prompt, [Prompt EXCEPT !.command = TRUE, !.notify = "on_error"],
     [command |-> TRUE, once |-> TRUE, overlap |-> "allow", notify |-> "never"]}
Prompts == {Prompt}
=============================================================================
