-------------------------- MODULE ShellProperties --------------------------
(***************************************************************************)
(* What the shell runs, and what it leaves running.                        *)
(***************************************************************************)
EXTENDS Shell, FiniteSetsExt

TypeOK ==
    /\ pc \in {"read", "tokens", "waitPipe", "waitLast", "dead"}
    /\ Len(rest) <= Len(line)
    /\ Len(command) < MAX_COMMANDS
    /\ opened \in 0..MAX_FILES /\ num_children \in 0..MAX_CHILDREN
    /\ state \in {"none", "running", "zombie"}
    /\ armed \subseteq Signals

(* What a line l says of the command that ends before its token p.  Its    *)
(* tokens are those behind the last pipe, its words the ones that neither  *)
(* redirect nor name the file of a redirection, and of several             *)
(* redirections of a kind the last one counts.                             *)
Arrows == {">", "<"}
Before(l, p)    == {0} \cup {i \in DOMAIN l : i < p /\ l[i] = "|"}
First(l, p)     == Max(Before(l, p)) + 1
Segment(l, p)   == First(l, p)..(p - 1)
Redirects(l, p, i) == i >= First(l, p) /\ l[i] \in Arrows
Words(l, p)     == {i \in Segment(l, p) : ~Redirects(l, p, i) /\ ~Redirects(l, p, i - 1)}

FilesOf(l, p, arrow) ==
    LET arrows == {i \in Segment(l, p) : l[i] = arrow}
    IN IF arrows = {} THEN {"std"}
       ELSE {"none"} \cup {l[i] : i \in {Max(arrows) + 1} \cap Segment(l, p)}

Says(l, p, words, in, out) ==
    /\ \E place \in Surjection(DOMAIN words, Words(l, p)) :
          /\ \A j, k \in DOMAIN words : j < k => place[j] < place[k]
          /\ \A k \in DOMAIN words : words[k] = l[place[k]]
    /\ in \in FilesOf(l, p, "<") /\ out \in FilesOf(l, p, ">")

(* What is behind a redirection names its file: "ls > | wc" opens a file   *)
(* called "|".                                                             *)
WellFormed(l) ==
    \A i \in 1..(Len(l) - 1) : l[i] \in Arrows => l[i + 1] \notin Arrows \cup {"|"}

(* The token that ends the command being run, or the next one to look at.  *)
Position == Len(line) - Len(rest) + (IF pc = "waitPipe" THEN 0 ELSE 1)

(* A command runs with its own words and its own redirections: nothing is  *)
(* left of the command before it in the line, or of the line before.       *)
RunsItsSegment ==
    Waiting /\ WellFormed(line) => Says(line, Position, child.words, child.in, child.out)

(* No command outlives its line: one is running only while the shell waits *)
(* for it, or when the shell was ended by a signal or by a full child_pids. *)
NoOrphans ==
    state = "running" => \/ Waiting
                         \/ pc = "dead" /\ (armed # Signals \/ Overflows)
=============================================================================
