------------------------------- MODULE Commands -------------------------------
(***************************************************************************)
(* One command run by a provider, sysexec/exec.go: what a Runner does, in  *)
(* order, and what it waits for, whatever fails.                           *)
(*                                                                         *)
(* A command is what its caller asks (dryRun, verbose, and how much stdin: *)
(* none, what a pipe holds, or more) and what then happens: which scratch  *)
(* files can be made, whether it starts, how it exits, whether it reads    *)
(* its stdin, and whether it leaves a daemon behind, which inherits its    *)
(* descriptors and reads nothing.                                          *)
(***************************************************************************)
EXTENDS Naturals, Sequences
LOCAL INSTANCE SequencesExt

Scratch == {"stdout", "stderr"}

CommandsToRun ==
  [dryRun : BOOLEAN, verbose : BOOLEAN, makes : SUBSET Scratch, starts : BOOLEAN,
   exits : {"ok", "failed"}, stdin : {"none", "fits", "more"}, reads : BOOLEAN, daemon : BOOLEAN]

Does(what)    == [does |-> what, to |-> "none"]
Creates(file) == [does |-> "create", to |-> file]
Removes(file) == [does |-> "remove", to |-> file]

Log(c) == IF c.verbose \/ c.dryRun THEN << Does("log") >> ELSE <<>>

(* tempFile, and the deferred call that removes it; without the file the    *)
(* rest is not reached.                                                     *)
WithFile(file, c, body) ==
  IF file \in c.makes THEN << Creates(file) >> \o body \o << Removes(file) >> ELSE <<>>

(* Wrong: the output is captured through pipes, whose end Run waits for. *)
HeldByPipes(c) == c.daemon

(* Run waits for the command, and until its stdin is written, which a       *)
(* daemon holds up that keeps the pipe open; a file has no reader to wait   *)
(* for.                                                                     *)
Held(c) == c.daemon /\ c.stdin = "more" /\ ~c.reads

Execute(c) ==
  IF ~c.starts THEN <<>>
  ELSE << Does("start"), Does("exit") >> \o (IF Held(c) THEN << Does("daemonEnds") >> ELSE <<>>)

Run(c) ==
  Log(c) \o (IF c.dryRun THEN <<>> ELSE WithFile("stdout", c, WithFile("stderr", c, Execute(c))))

(* What it answers: an error that keeps stderr when the command failed.     *)
Answers(c) ==
  IF c.dryRun THEN "ok"
  ELSE IF c.makes # Scratch THEN "noFile"
  ELSE IF c.starts THEN c.exits ELSE "failed"

(* Mutate: a change that is not a command is logged and held back alike.    *)
Mutate(c) == Log(c) \o (IF c.dryRun THEN <<>> ELSE << Does("mutate") >>)

-----------------------------------------------------------------------------
(* A file that is created is removed, and after that only files are.        *)
Tidy(run) ==
  \A k \in DOMAIN run : run[k].does = "create" =>
    \E l \in (k + 1)..Len(run) :
      run[l] = Removes(run[k].to) /\ \A m \in l..Len(run) : run[m].does = "remove"

(* Under dry-run nothing happens but the log (exec.go:59).  Otherwise no    *)
(* scratch file outlives Run, on any path, nor is removed under a command   *)
(* that may still write to it; success is answered of commands that ran to  *)
(* their end only; and Run returns when the command itself exits, whatever  *)
(* daemons it leaves (exec.go:96), if its stdin fits in a pipe.             *)
LeavesNothing(c) ==
  /\ c.dryRun => ToSet(Run(c)) \cup ToSet(Mutate(c)) = {Does("log")} /\ Answers(c) = "ok"
  /\ Tidy(Run(c))
  /\ ~c.dryRun /\ Answers(c) = "ok" => Does("exit") \in ToSet(Run(c)) /\ c.exits = "ok"
  /\ c.stdin # "more" => Does("daemonEnds") \notin ToSet(Run(c))
=============================================================================
