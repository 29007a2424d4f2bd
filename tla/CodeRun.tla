------------------------------- MODULE CodeRun -------------------------------
(***************************************************************************)
(* POST /code/run (backend/internal/coderun): the service puts a deadline  *)
(* on a run, and the local executor, the one that cmd/api configures,      *)
(* writes the source to a directory of its own and runs one or two         *)
(* commands there.                                                         *)
(*                                                                         *)
(* A command returns when its process has ended and nobody holds its       *)
(* output pipes any more.  The deadline kills the process of the command   *)
(* that is running, and no process that it has started.                    *)
(***************************************************************************)
EXTENDS Naturals

CONSTANTS
  Requests,      \* handlers at work at once
  Programs,      \* [language, builds: whether it compiles, forks, loops: BOOLEAN]
  Toolchains,    \* the languages whose tools are installed
  None

VARIABLES
  run,      \* Requests -> the run at work, or None
  answer    \* Requests -> the last answer, or None

codeVars == <<run, answer>>

Compiled == {"c", "cpp", "java"}
Interpreted == {"python", "javascript", "typescript"}
Languages == Compiled \cup Interpreted \cup {"go"}

CodeInit ==
  /\ run = [r \in Requests |-> None]
  /\ answer = [r \in Requests |-> None]

Running(r) == run[r] # None
Command(r, name) == Running(r) /\ run[r].command = name

\* The process of a command, and one that it started and that holds the pipes:
\* cc and c++ start a compiler, go run does too and then starts the program it has
\* built, and a program may start others.
Started(program, name) ==
  [program |-> program, command |-> name, late |-> FALSE, process |-> "running",
   child |-> \/ name = "compiler" /\ program.language \in {"c", "cpp"}
             \/ name = "program" /\ program.language = "go"
             \/ name = "program" /\ program.builds /\ program.forks]

Refusal(message) == [ran |-> FALSE, message |-> message, whole |-> FALSE]

\* Service.Run and Execute up to the first command
Run(r, program) ==
  /\ ~Running(r)
  /\ IF program.language \notin Languages
     THEN answer' = [answer EXCEPT ![r] = Refusal("unsupported language")] /\ UNCHANGED run
     ELSE IF program.language \notin Toolchains
     THEN answer' = [answer EXCEPT ![r] = Refusal("executor unavailable")] /\ UNCHANGED run
     ELSE /\ run' = [run EXCEPT ![r] =
               Started(program, IF program.language \in Compiled THEN "compiler" ELSE "program")]
          /\ answer' = [answer EXCEPT ![r] = None]

\* The context expires: exec.CommandContext kills the process.
Deadline(r) ==
  /\ Running(r) /\ ~run[r].late
  /\ run' = [run EXCEPT ![r].late = TRUE,
                        ![r].process = IF @ = "running" THEN "killed" ELSE @]
  /\ UNCHANGED answer

\* A process ends by itself, after the one it started if it waits for that as
\* compilers and go run do; a program that loops does not.
Executes(r) == Command(r, "program") /\ run[r].program.builds
Waits(r) == Command(r, "compiler") \/ run[r].program.language = "go"
Ends(r) ==
  /\ Running(r) /\ run[r].process = "running"
  /\ Executes(r) => ~run[r].program.loops
  /\ Waits(r) => ~run[r].child
  /\ run' = [run EXCEPT ![r].process =
       IF Command(r, "compiler") /\ ~run[r].program.builds THEN "failed" ELSE "ended"]
  /\ UNCHANGED answer
ChildEnds(r) ==
  /\ Running(r) /\ run[r].child
  /\ Executes(r) => ~run[r].program.loops
  /\ run' = [run EXCEPT ![r].child = FALSE]
  /\ UNCHANGED answer

\* cmd.Run has waited for the process and for its pipes.
Returned(r) == Running(r) /\ run[r].process # "running" /\ ~run[r].child
Reply(r, message) ==
  /\ answer' = [answer EXCEPT ![r] =
       [ran |-> TRUE, message |-> message, whole |-> run[r].process = "ended"]]
  /\ run' = [run EXCEPT ![r] = None]

\* A compiler that was killed has a code other than 0, too.
CompilerReturns(r) ==
  /\ Command(r, "compiler") /\ Returned(r)
  /\ IF run[r].process # "ended" THEN Reply(r, "compilation failed")
     ELSE /\ run' = [run EXCEPT ![r] = [Started(run[r].program, "program") EXCEPT
               !.late = run[r].late,
               \* a command is not started after the deadline (code 124)
               !.process = IF run[r].late THEN "killed" ELSE "running",
               !.child = IF run[r].late THEN FALSE ELSE @]]
          /\ UNCHANGED answer

\* spawn looks at the clock after the program; Bug_Message is a plausible slip.
Bug_Message(r) == "none"
Message(r) == IF run[r].late THEN "execution timed out" ELSE "none"
ProgramReturns(r) ==
  Command(r, "program") /\ Returned(r) /\ Reply(r, Message(r))

CodeNext ==
  \E r \in Requests :
    \/ \E program \in Programs : Run(r, program)
    \/ Deadline(r) \/ Ends(r) \/ ChildEnds(r) \/ CompilerReturns(r) \/ ProgramReturns(r)

\* The deadline comes, processes that do not loop end, and the server acts on
\* what has returned.
CodeSpec ==
  /\ CodeInit /\ [][CodeNext]_codeVars
  /\ \A r \in Requests :
       /\ WF_codeVars(Deadline(r)) /\ WF_codeVars(Ends(r)) /\ WF_codeVars(ChildEnds(r))
       /\ WF_codeVars(CompilerReturns(r)) /\ WF_codeVars(ProgramReturns(r))

-----------------------------------------------------------------------------
\* An answer without a message is the output of a program that was built and
\* that ended by itself: nothing is cut off without a word (local.go spawn,
\* runCmd).
NoSilentKill ==
  \A r \in Requests :
    answer[r] # None /\ answer[r].message = "none" => answer[r].whole

\* "The service enforces it via a context deadline so a slow or hung upstream
\* never blocks the request indefinitely" (service.go).
RunAnswered == \A r \in Requests : Running(r) ~> ~Running(r)
=============================================================================
