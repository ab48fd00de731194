-------------------------------- MODULE Exec -------------------------------
(***************************************************************************)
(* exec.exec and exec.qexec of vendor/lua/lib.lua: the agent forks, the    *)
(* child becomes a program, and the agent feeds it, drains it and waits.   *)
(* Agent and child run concurrently, joined by three pipes of bounded      *)
(* capacity (exec.qexec uses none).  A text is a sequence of two kinds of   *)
(* characters: the newline, and any other.                                 *)
(***************************************************************************)
EXTENDS Naturals, Sequences

CONSTANTS
  Calls,    \* the argument tables explored
  Cap,      \* capacity of a pipe
  MaxOut,   \* bound: characters the program writes to stdout
  MaxErr,   \* bound: characters it writes to stderr
  Codes,    \* exit statuses of a program
  NoCode    \* nil

Std == {"in", "out", "err"}
Streams == {"out", "err"}
Chars == {"x", "newline"}

\* quiet: exec.qexec.  redirect: the streams copied to a file.  cwd: whether
\* the directory to change to exists.
Call == [quiet : BOOLEAN, stdin : Nat, cwd : BOOLEAN, redirect : SUBSET Streams,
         ignore : BOOLEAN]

ASSUME ExecAssumption ==
  /\ Calls \subseteq Call
  /\ \A c \in Calls : c.quiet => c.stdin = 0 /\ c.redirect = {}
  /\ {Cap, MaxOut, MaxErr} \subseteq Nat /\ Cap > 0
  /\ 0 \in Codes /\ NoCode \notin Codes

VARIABLES
  call,     \* the arguments
  par,      \* the agent: "call", "in", "out" and "err" while it serves that
            \* pipe, "wait", "again", "returned", or "killed" by SIGPIPE
  child,    \* "none", "forked", "program", "agent" (a second one!), "exited"
  op,       \* the stream the child is reading or writing, or "none"
  pipe,     \* the characters in each pipe
  parFds,   \* the agent's open pipe ends
  childFds, \* the child's
  left,     \* characters of stdin still to write
  made,     \* what the child wrote to each stream
  got,      \* what the agent read from it
  given,    \* the places of the characters of it that R.stdout and R.stderr hold
  code,     \* the child's exit status
  reaped,   \* the child has been waited for
  result,   \* the exit status returned, NoCode for nil
  ran,      \* history: the program was started
  calm      \* history: no signal, and no failing write of the agent

datavars == <<pipe, left, made, got, given>>
execvars == <<call, par, child, op, parFds, childFds, datavars, code, reaped,
              result, ran, calm>>

Empty == [s \in Std |-> << >>]
Silence == [s \in Streams |-> << >>]

ExecInit ==
  /\ call \in Calls
  /\ par = "call" /\ child = "none" /\ op = "none"
  /\ pipe = Empty /\ parFds = {} /\ childFds = {}
  /\ left = call.stdin
  /\ made = Silence /\ got = Silence /\ given = [s \in Streams |-> {}]
  /\ code = NoCode /\ reaped = FALSE
  /\ result = NoCode
  /\ ran = FALSE /\ calm = TRUE

----------------------------------------------------------------------------
(* The agent. *)

ReturnStatus(c) == par' = "returned" /\ result' = c

\* Without a pipe or a process there is nothing to do.
ForkFails ==
  /\ par = "call"
  /\ ReturnStatus(NoCode)
  /\ UNCHANGED <<call, child, op, parFds, childFds, datavars, code, reaped, ran, calm>>

Fork ==
  /\ par = "call"
  /\ child' = "forked"
  /\ IF call.quiet THEN par' = "wait" /\ UNCHANGED <<parFds, childFds>>
     ELSE par' = "in" /\ parFds' = Std /\ childFds' = Std
  /\ UNCHANGED <<call, op, datavars, code, reaped, result, ran, calm>>

\* fd.write of args.stdin.  With no reader left SIGPIPE ends the agent.
WriteStdin ==
  /\ par = "in" /\ left > 0
  /\ \/ /\ "in" \in childFds /\ Len(pipe["in"]) < Cap
        /\ pipe' = [pipe EXCEPT !["in"] = Append(@, "x")]
        /\ left' = left - 1
        /\ UNCHANGED <<par, parFds>>
     \/ /\ "in" \notin childFds
        /\ par' = "killed" /\ parFds' = {}
        /\ UNCHANGED <<pipe, left>>
  /\ UNCHANGED <<call, child, op, childFds, made, got, given, code, reaped, result,
                 ran, calm>>

\* The write fails in another way: an early return, nothing closed.
StdinFails ==
  /\ par = "in" /\ left > 0
  /\ ReturnStatus(NoCode)
  /\ calm' = FALSE
  /\ UNCHANGED <<call, child, op, parFds, childFds, datavars, code, reaped, ran>>

\* Mutant of CloseStdin: fd0 stays open while the output is read.
CloseStdinForgotten ==
  /\ par = "in" /\ left = 0
  /\ par' = "out"
  /\ UNCHANGED <<call, child, op, parFds, childFds, datavars, code, reaped, result,
                 ran, calm>>

CloseStdin ==
  /\ par = "in" /\ left = 0
  /\ parFds' = parFds \ {"in"}
  /\ par' = "out"
  /\ UNCHANGED <<call, child, op, childFds, datavars, code, reaped, result, ran, calm>>

(***************************************************************************)
(* What fdcopy makes of a text: the lines in it that are ended and not     *)
(* empty, or all of it if it has no such line.  The rest of the text, such *)
(* as a last line that no newline ends, is dropped.                        *)
(***************************************************************************)
InLine(t, n) == t[n] # "newline" /\ \E m \in DOMAIN t : m > n /\ t[m] = "newline"
Collected(t) ==
  LET lines == {n \in DOMAIN t : InLine(t, n)}
  IN  IF lines = {} THEN DOMAIN t ELSE lines

\* fdcopy is done with stream s; what went to a file is not returned.
MakeLines(s) ==
  given' = IF s \in call.redirect THEN given
           ELSE [given EXCEPT ![s] = Collected(got[s])]

ReadPipe(s) ==
  /\ pipe[s] # << >>
  /\ pipe' = [pipe EXCEPT ![s] = Tail(@)]
  /\ got' = [got EXCEPT ![s] = Append(@, Head(pipe[s]))]

Leave(s, then) == par' = then /\ parFds' = parFds \ {s} /\ MakeLines(s)

\* Mutant of Drain: a writer that is gone is noticed before what it left.
DrainUntilClosed(s, then) ==
  /\ par = s
  /\ \/ ReadPipe(s) /\ UNCHANGED <<par, parFds, given>>
     \/ s \notin childFds /\ Leave(s, then) /\ UNCHANGED <<pipe, got>>
  /\ UNCHANGED <<call, child, op, childFds, left, made, code, reaped, result, ran, calm>>

\* fdcopy: one read, or the end of the file.
Drain(s, then) ==
  /\ par = s
  /\ \/ ReadPipe(s) /\ UNCHANGED <<par, parFds, given>>
     \/ /\ pipe[s] = << >> /\ s \notin childFds
        /\ Leave(s, then)
        /\ UNCHANGED <<pipe, got>>
  /\ UNCHANGED <<call, child, op, childFds, left, made, code, reaped, result, ran, calm>>

DrainStdout == Drain("out", "err")
DrainStderr == Drain("err", "wait")

\* A read that a signal interrupts gives nil, which fdcopy takes for the end.
ReadInterrupted ==
  /\ \/ par = "out" /\ Leave("out", "err")
     \/ par = "err" /\ Leave("err", "wait")
  /\ calm' = FALSE
  /\ UNCHANGED <<call, child, op, childFds, pipe, left, made, got, code, reaped,
                 result, ran>>

\* A file cannot be opened, or written what was read: an early return.
RedirectFails ==
  /\ par \in call.redirect
  /\ \/ UNCHANGED <<pipe, got>>
     \/ ReadPipe(par)
  /\ ReturnStatus(NoCode)
  /\ calm' = FALSE
  /\ UNCHANGED <<call, child, op, parFds, childFds, left, made, given, code, reaped,
                 ran>>

Wait ==
  /\ par = "wait" /\ child = "exited"
  /\ reaped' = TRUE
  /\ ReturnStatus(IF code = 0 \/ call.ignore THEN code ELSE NoCode)
  /\ UNCHANGED <<call, child, op, parFds, childFds, datavars, code, ran, calm>>

\* EINTR: `retry' calls wait again, and again after it has succeeded, ...
WaitInterrupted ==
  /\ par = "wait"
  /\ par' = "again"
  /\ calm' = FALSE
  /\ UNCHANGED <<call, child, op, parFds, childFds, datavars, code, reaped, result,
                 ran>>

\* ... until there is no child to wait for, which is reported as a failure.
WaitAgain ==
  /\ par = "again" /\ child = "exited"
  /\ reaped' = TRUE
  /\ ReturnStatus(NoCode)
  /\ UNCHANGED <<call, child, op, parFds, childFds, datavars, code, ran, calm>>

----------------------------------------------------------------------------
(* The child. *)

(***************************************************************************)
(* chdir and execve.  If chdir fails the child returns from exec.exec as   *)
(* its parent will: it goes on with the rest of the policy.  If execve     *)
(* fails it exits with the errno.                                          *)
(***************************************************************************)
ChangeDirectory ==
  /\ child = "forked" /\ ~ call.cwd
  /\ child' = "agent"
  /\ UNCHANGED <<call, par, op, parFds, childFds, datavars, code, reaped, result,
                 ran, calm>>

Execve ==
  /\ child = "forked" /\ call.cwd
  /\ \/ child' = "program" /\ ran' = TRUE /\ UNCHANGED <<childFds, code>>
     \/ /\ child' = "exited" /\ childFds' = {} /\ UNCHANGED ran
        /\ code' \in Codes \ {0}
  /\ UNCHANGED <<call, par, op, parFds, datavars, reaped, result, calm>>

Limit(s) == IF s = "out" THEN MaxOut ELSE MaxErr

\* The program turns to its next read or write, and is bound to it.
Choose ==
  /\ child \in {"program", "agent"} /\ op = "none"
  /\ \E s \in childFds :
       /\ s = "in" => child = "program"
       /\ s \in Streams => Len(made[s]) < Limit(s)
       /\ op' = s
  /\ UNCHANGED <<call, par, child, parFds, childFds, datavars, code, reaped, result,
                 ran, calm>>

\* It does not read beyond the end of its input.
ReadStdin ==
  /\ op = "in"
  /\ \/ /\ pipe["in"] # << >>
        /\ pipe' = [pipe EXCEPT !["in"] = Tail(@)]
        /\ UNCHANGED childFds
     \/ /\ pipe["in"] = << >> /\ "in" \notin parFds
        /\ childFds' = childFds \ {"in"}
        /\ UNCHANGED pipe
  /\ op' = "none"
  /\ UNCHANGED <<call, par, child, parFds, left, made, got, given, code, reaped,
                 result, ran, calm>>

\* A character; if the agent has closed its end SIGPIPE ends the child.
WriteOutput ==
  /\ op \in Streams
  /\ \/ /\ op \in parFds /\ Len(pipe[op]) < Cap
        /\ \E c \in Chars : /\ pipe' = [pipe EXCEPT ![op] = Append(@, c)]
                            /\ made' = [made EXCEPT ![op] = Append(@, c)]
        /\ UNCHANGED <<child, childFds, code>>
     \/ /\ op \notin parFds
        /\ child' = "exited" /\ childFds' = {}
        /\ code' \in Codes \ {0}
        /\ UNCHANGED <<pipe, made>>
  /\ op' = "none"
  /\ UNCHANGED <<call, par, parFds, left, got, given, reaped, result, ran, calm>>

\* A program may close its standard streams and go on.
CloseStream ==
  /\ child = "program" /\ op = "none"
  /\ \E s \in childFds : childFds' = childFds \ {s}
  /\ UNCHANGED <<call, par, child, op, parFds, datavars, code, reaped, result, ran,
                 calm>>

ChildExits ==
  /\ child \in {"program", "agent"} /\ op = "none"
  /\ child' = "exited" /\ childFds' = {}
  /\ code' \in Codes
  /\ UNCHANGED <<call, par, op, parFds, datavars, reaped, result, ran, calm>>

(***************************************************************************)
(* After an early return nobody drains the pipes, and the child may wait   *)
(* for ever.                                                               *)
(***************************************************************************)
Terminated == par \in {"returned", "killed"} /\ UNCHANGED execvars

AgentNext ==
  \/ ForkFails \/ Fork \/ WriteStdin \/ StdinFails \/ CloseStdin
  \/ DrainStdout \/ DrainStderr \/ ReadInterrupted \/ RedirectFails
  \/ Wait \/ WaitInterrupted \/ WaitAgain

ChildNext ==
  \/ ChangeDirectory \/ Execve
  \/ Choose \/ ReadStdin \/ WriteOutput \/ CloseStream \/ ChildExits

ExecNext == AgentNext \/ ChildNext \/ Terminated

ExecSpec == ExecInit /\ [][ExecNext]_execvars

\* Both processes are scheduled, and what the child runs ends by itself.
ExecFairSpec == ExecSpec /\ WF_execvars(AgentNext) /\ WF_execvars(ChildNext)

----------------------------------------------------------------------------
ExecTypeOK ==
  /\ call \in Calls
  /\ par \in {"call", "wait", "again", "returned", "killed"} \cup Std
  /\ child \in {"none", "forked", "program", "agent", "exited"}
  /\ op \in Std \cup {"none"}
  /\ pipe \in [Std -> Seq(Chars)] /\ \A s \in Std : Len(pipe[s]) <= Cap
  /\ {parFds, childFds} \subseteq SUBSET Std
  /\ left \in 0..call.stdin
  /\ made \in [Streams -> Seq(Chars)] /\ got \in [Streams -> Seq(Chars)]
  /\ given \in [Streams -> SUBSET Nat]
  /\ code \in Codes \cup {NoCode} /\ result \in Codes \cup {NoCode}
  /\ {reaped, ran, calm} \subseteq BOOLEAN

(***************************************************************************)
(* Whatever happens, the agent has read the beginning of what the program  *)
(* wrote, nothing else and nothing out of order.  A call that no signal    *)
(* and no failing write disturbs has read all of it and left no pipe open. *)
(* Of a stream that does not go to a file it then returns every character  *)
(* of every line that is ended, or the whole stream if there is no such    *)
(* line; what follows the last newline is otherwise lost, and no promise   *)
(* is made of it (lib.lua 278-319).                                        *)
(***************************************************************************)
OutputWhole ==
  /\ \A s \in Streams : made[s] = got[s] \o pipe[s]
  /\ (par = "returned" /\ calm) =>
       /\ parFds = {} /\ got = made
       /\ \A s \in Streams \ call.redirect :
            /\ \A n \in DOMAIN made[s] : InLine(made[s], n) => n \in given[s]
            /\ (\A n \in DOMAIN made[s] : ~ InLine(made[s], n)) =>
                 given[s] = DOMAIN made[s]

(***************************************************************************)
(* The agent and its child do not wait for each other for ever: the call   *)
(* ends, whatever the program reads and in whatever order it fills its     *)
(* pipes, as long as stdin and stderr fit in theirs (lib.lua 308-320).     *)
(***************************************************************************)
CallEnds == <>(par \in {"returned", "killed"})

(***************************************************************************)
(* "Command successfully executed" (shell.lua 84, reported on status 0):   *)
(* a status of 0 means that the program was started.                       *)
(***************************************************************************)
SuccessMeansRan == (par = "returned" /\ result = 0) => ran
=============================================================================
