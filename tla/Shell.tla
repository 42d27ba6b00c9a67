------------------------------- MODULE Shell -------------------------------
(***************************************************************************)
(* The shell (HW2/ersoy_burak_1901042703.c).  It reads a line, goes        *)
(* through its tokens, and runs each command of it in a child which it     *)
(* waits for, so "a | b" runs a and then b, and not connected.             *)
(*                                                                         *)
(* The makefile compiles with -std=c99, where signal() installs a handler  *)
(* for one signal only and no call is restarted after it.  A line is a     *)
(* sequence of tokens; a redirection has its file name, if any, behind it. *)
(***************************************************************************)
EXTENDS Integers, Sequences

CONSTANTS
    MAX_COMMANDS,  \* size of command_tokens
    MAX_CHILDREN,  \* size of child_pids
    MAX_FILES,     \* descriptors the process may have, besides the standard ones
    Lines,         \* what may be typed
    MaxLines,      \* bound on the lines typed
    Signals

ASSUME LinesFit == \A l \in Lines : l \in Seq(STRING) /\ Len(l) < MAX_COMMANDS
ASSUME SizesAssumption ==
    MAX_COMMANDS \in Nat /\ MAX_CHILDREN \in Nat /\ MAX_FILES \in Nat

VARIABLES
    pc,            \* "read", "tokens", "waitPipe", "waitLast" or "dead"
    line, rest,    \* the tokens of the line, and those not yet looked at
    command,       \* command_tokens
    input_fd, output_fd,   \* "std", "none" (open() failed), or the file
    opened,        \* descriptors opened for redirections and never closed
    num_children,  \* the global one
    child,         \* the last command executed: its words and its redirections
    state,         \* that child: "none", "running" or "zombie"
    armed,         \* signals whose handler is installed
    typed, eof     \* lines read; whether the input has ended

fdVars    == <<input_fd, output_fd, opened>>
childVars == <<num_children, child, state>>
inputVars == <<typed, eof>>
vars == <<pc, line, rest, command, fdVars, childVars, armed, inputVars>>

Nobody == [words |-> << >>, in |-> "std", out |-> "std"]

Init ==
    /\ pc = "read" /\ rest = << >> /\ command = << >>
    /\ line \in Lines        \* the buffer is not initialised
    /\ input_fd = "std" /\ output_fd = "std" /\ opened = 0
    /\ num_children = 0 /\ child = Nobody /\ state = "none"
    /\ armed = Signals /\ typed = 0 /\ eof = FALSE
-----------------------------------------------------------------------------
ReadLine ==
    /\ pc = "read" /\ ~eof /\ typed < MaxLines
    /\ \E l \in Lines : line' = l /\ rest' = l
    /\ typed' = typed + 1
    /\ pc' = "tokens"
    /\ UNCHANGED <<command, fdVars, childVars, armed, eof>>

(* fgets() fails and leaves the buffer, in which strtok() has ended the    *)
(* last line behind its first token.                                       *)
ReadNothing ==
    /\ line' = IF line = << >> THEN << >> ELSE <<line[1]>>
    /\ rest' = line'
    /\ pc' = "tokens"

EndOfInput ==
    /\ pc = "read"
    /\ eof' = TRUE
    /\ ReadNothing
    /\ UNCHANGED <<command, fdVars, childVars, armed, typed>>

(* open() fails when there is no name, when too many files are open, and   *)
(* for reasons of its own.                                                 *)
Redirect ==
    /\ pc = "tokens" /\ rest # << >> /\ rest[1] \in {">", "<"}
    /\ rest' = SubSeq(rest, 3, Len(rest))
    /\ \E fd \in {"none"} \cup {rest[i] : i \in {2} \cap DOMAIN rest} :
          /\ IF fd = "none" THEN UNCHANGED opened
                            ELSE opened < MAX_FILES /\ opened' = opened + 1
          /\ IF rest[1] = ">" THEN output_fd' = fd /\ UNCHANGED input_fd
                              ELSE input_fd' = fd /\ UNCHANGED output_fd
    /\ UNCHANGED <<pc, line, command, childVars, armed, inputVars>>

Word ==
    /\ pc = "tokens" /\ rest # << >> /\ rest[1] \notin {">", "<", "|"}
    /\ command' = Append(command, rest[1])
    /\ rest' = Tail(rest)
    /\ UNCHANGED <<pc, line, fdVars, childVars, armed, inputVars>>

(* execute_command: fork, which may fail and then ends the shell, and in   *)
(* the parent child_pids[num_children++], which nobody ever resets: from   *)
(* MAX_CHILDREN on the pid is written past the array.                      *)
IsQuit == line # << >> /\ line[1] = ":q"
Overflows == num_children >= MAX_CHILDREN

Execute ==
    /\ pc = "tokens"
    /\ \E wait \in {"waitPipe", "waitLast"} :
          /\ IF wait = "waitLast" THEN rest = << >> /\ ~IsQuit /\ UNCHANGED rest
                                  ELSE rest # << >> /\ rest[1] = "|" /\ rest' = Tail(rest)
          /\ \/ pc' = "dead" /\ UNCHANGED childVars
             \/ /\ pc' \in (IF Overflows THEN {wait, "dead"} ELSE {wait})
                /\ child' = [words |-> command, in |-> input_fd, out |-> output_fd]
                /\ state' = "running"
                /\ num_children' = IF Overflows THEN num_children ELSE num_children + 1
    /\ UNCHANGED <<line, command, fdVars, armed, inputVars>>

(* :q waits for the pids in its own array, which are all 0, and no child   *)
(* is there to be waited for.                                              *)
Quit ==
    /\ pc = "tokens" /\ rest = << >> /\ IsQuit
    /\ state = "none"
    /\ pc' = "dead"
    /\ UNCHANGED <<line, rest, command, fdVars, childVars, armed, inputVars>>

ChildEnds ==
    /\ state = "running"
    /\ state' = "zombie"
    /\ UNCHANGED <<pc, line, rest, command, fdVars, num_children, child, armed, inputVars>>

NotAwaited == TRUE      \* mutant
ChildIsOver == state = "zombie"

StdinOnly == input_fd' = "std" /\ UNCHANGED output_fd    \* mutant
ResetFds == input_fd' = "std" /\ output_fd' = "std"

KeepTokens == UNCHANGED command    \* mutant
ResetCommand == command' = << >>

(* waitpid() returns; the command and the redirections are set back.  The  *)
(* line goes on behind a pipe, or another one is read.                     *)
Waiting == pc \in {"waitPipe", "waitLast"}

Wait ==
    /\ Waiting /\ ChildIsOver
    /\ state' = IF state = "zombie" THEN "none" ELSE state
    /\ ResetFds /\ ResetCommand
    /\ pc' = IF pc = "waitPipe" THEN "tokens" ELSE "read"
    /\ UNCHANGED <<line, rest, opened, num_children, child, armed, inputVars>>

(* The first signal of a kind runs the handler.  The fgets() or waitpid()  *)
(* it finds the shell in fails, and the shell goes on after the one and    *)
(* ends after the other.  The second signal ends it anyway.                *)
Signal(s) ==
    /\ pc # "dead"
    /\ armed' = armed \ {s}
    /\ \/ s \in armed /\ UNCHANGED <<pc, line, rest>>
       \/ s \in armed /\ pc = "read" /\ ReadNothing
       \/ /\ s \in armed => Waiting /\ state = "running"
          /\ pc' = "dead" /\ UNCHANGED <<line, rest>>
    /\ UNCHANGED <<command, fdVars, childVars, inputVars>>

Rest == pc = "dead" /\ state # "running" /\ UNCHANGED vars

Next == \/ ReadLine \/ EndOfInput \/ Redirect \/ Word \/ Execute \/ Quit \/ Wait
        \/ ChildEnds \/ (\E s \in Signals : Signal(s)) \/ Rest

Spec == Init /\ [][Next]_vars
=============================================================================
