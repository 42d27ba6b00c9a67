----------------------------- MODULE ShellProof -----------------------------
(***************************************************************************)
(* Proofs about Shell for every set of lines and signals and every size of *)
(* the tables.                                                             *)
(***************************************************************************)
EXTENDS ShellProperties, SequenceTheorems, TLAPS

USE LinesFit, SizesAssumption

(* The tokens of the command being put together come from the line, and so *)
(* there are fewer of them than command_tokens has room for.               *)
TokensInv ==
    /\ line \in Seq(STRING) /\ rest \in Seq(STRING) /\ command \in Seq(STRING)
    /\ Len(line) < MAX_COMMANDS
    /\ Len(command) + Len(rest) <= Len(line)
    /\ pc = "read" => command = << >>

IInv == TypeOK /\ TokensInv /\ NoOrphans
-----------------------------------------------------------------------------
LEMMA InitIInv == Init => IInv
BY DEF Init, IInv, TypeOK, TokensInv, NoOrphans, Waiting

(* fgets() gives a line, or leaves the first token of the last one.        *)
LEMMA ReadNothingTokens ==
    ASSUME IInv, pc = "read", ReadNothing, UNCHANGED command
    PROVE  TokensInv' /\ Len(rest') <= Len(line')
<1>1. CASE line = << >>
  BY <1>1 DEF IInv, TokensInv, ReadNothing
<1>2. CASE line # << >>
  <2>1. line' \in Seq(STRING) /\ Len(line') = 1 /\ Len(line) >= 1
    BY <1>2 DEF IInv, TokensInv, ReadNothing
  <2> QED BY <2>1 DEF IInv, TokensInv, ReadNothing
<1> QED BY <1>1, <1>2

LEMMA ReadLineKeepsIInv == IInv /\ ReadLine => IInv'
BY DEF IInv, TypeOK, TokensInv, NoOrphans, ReadLine, Waiting, childVars, fdVars

LEMMA EndOfInputKeepsIInv == IInv /\ EndOfInput => IInv'
<1> SUFFICES ASSUME IInv, EndOfInput PROVE IInv'
  OBVIOUS
<1>1. TokensInv' /\ Len(rest') <= Len(line')
  BY ReadNothingTokens DEF EndOfInput
<1>2. TypeOK' /\ NoOrphans'
  BY <1>1 DEF IInv, TypeOK, NoOrphans, EndOfInput, ReadNothing, Waiting, childVars, fdVars
<1> QED BY <1>1, <1>2 DEF IInv

LEMMA RedirectKeepsIInv == IInv /\ Redirect => IInv'
<1> SUFFICES ASSUME IInv, Redirect PROVE IInv'
  OBVIOUS
<1>1. rest' \in Seq(STRING) /\ Len(rest') <= Len(rest)
  <2>1. rest' = SubSeq(rest, 3, Len(rest)) /\ rest \in Seq(STRING)
    BY DEF IInv, TokensInv, Redirect
  <2> QED BY <2>1
<1>2. TokensInv'
  BY <1>1 DEF IInv, TokensInv, Redirect
<1>3. opened' \in 0..MAX_FILES
  BY DEF IInv, TypeOK, Redirect
<1>4. TypeOK' /\ NoOrphans'
  BY <1>2, <1>3 DEF IInv, TypeOK, TokensInv, NoOrphans, Redirect, Waiting, childVars
<1> QED BY <1>2, <1>4 DEF IInv

LEMMA WordKeepsIInv == IInv /\ Word => IInv'
<1> SUFFICES ASSUME IInv, Word PROVE IInv'
  OBVIOUS
<1>1. /\ rest' \in Seq(STRING) /\ Len(rest') = Len(rest) - 1
      /\ command' \in Seq(STRING) /\ Len(command') = Len(command) + 1
  BY DEF IInv, TokensInv, Word
<1>2. TokensInv'
  BY <1>1 DEF IInv, TokensInv, Word
<1>3. TypeOK' /\ NoOrphans'
  BY <1>1, <1>2 DEF IInv, TypeOK, TokensInv, NoOrphans, Word, Waiting, childVars, fdVars
<1> QED BY <1>2, <1>3 DEF IInv

LEMMA ExecuteKeepsIInv == IInv /\ Execute => IInv'
<1> SUFFICES ASSUME IInv, Execute PROVE IInv'
  OBVIOUS
<1>1. rest' \in Seq(STRING) /\ Len(rest') <= Len(rest)
  <2>1. rest' = rest \/ (rest # << >> /\ rest' = Tail(rest))
    BY DEF Execute
  <2>2. rest \in Seq(STRING)
    BY DEF IInv, TokensInv
  <2> QED BY <2>1, <2>2
<1>2. pc' \in {"waitPipe", "waitLast", "dead"} /\ num_children' \in 0..MAX_CHILDREN
  BY DEF IInv, TypeOK, Execute, Overflows, childVars
<1>3. TokensInv'
  BY <1>1, <1>2 DEF IInv, TokensInv, Execute
<1>4. NoOrphans'
  BY DEF IInv, TypeOK, NoOrphans, Execute, Overflows, Waiting, childVars
<1>5. state' \in {"none", "running", "zombie"}
  BY DEF IInv, TypeOK, Execute, childVars
<1>6. TypeOK'
  BY <1>1, <1>2, <1>3, <1>5 DEF IInv, TypeOK, TokensInv, Execute, fdVars
<1> QED BY <1>3, <1>4, <1>6 DEF IInv

LEMMA WaitKeepsIInv == IInv /\ Wait => IInv'
<1> SUFFICES ASSUME IInv, Wait PROVE IInv'
  OBVIOUS
<1>1. TokensInv'
  BY DEF IInv, TokensInv, Wait, ResetCommand
<1>2. TypeOK' /\ NoOrphans'
  BY <1>1 DEF IInv, TypeOK, TokensInv, NoOrphans, Wait, Waiting, ChildIsOver,
              ResetFds, ResetCommand
<1> QED BY <1>1, <1>2 DEF IInv

LEMMA EndsKeepIInv == IInv /\ (Quit \/ ChildEnds \/ UNCHANGED vars) => IInv'
BY DEF IInv, TypeOK, TokensInv, NoOrphans, Quit, ChildEnds, Waiting, Overflows, vars,
       childVars, fdVars, inputVars

(* A signal takes the shell from a running child only when its handler is  *)
(* no longer installed afterwards.                                         *)
LEMMA SignalKeepsIInv == ASSUME NEW s \in Signals PROVE IInv /\ Signal(s) => IInv'
<1> SUFFICES ASSUME IInv, Signal(s) PROVE IInv'
  OBVIOUS
<1>1. armed' # Signals /\ armed' \subseteq Signals
  BY DEF IInv, TypeOK, Signal
<1>2. CASE pc = "read" /\ ReadNothing
  <2>1. TokensInv' /\ Len(rest') <= Len(line')
    BY <1>2, ReadNothingTokens DEF Signal
  <2> QED
    BY <1>1, <1>2, <2>1 DEF IInv, TypeOK, NoOrphans, Signal, ReadNothing, Waiting,
                            childVars, fdVars
<1>3. CASE UNCHANGED <<line, rest>> /\ (pc' = "dead" \/ pc' = pc)
  BY <1>1, <1>3 DEF IInv, TypeOK, TokensInv, NoOrphans, Signal, Waiting, childVars, fdVars
<1> QED BY <1>2, <1>3 DEF Signal

LEMMA NextKeepsIInv == IInv /\ [Next]_vars => IInv'
BY ReadLineKeepsIInv, EndOfInputKeepsIInv, RedirectKeepsIInv, WordKeepsIInv,
   ExecuteKeepsIInv, WaitKeepsIInv, EndsKeepIInv, SignalKeepsIInv DEF Next, Rest
-----------------------------------------------------------------------------
(* The invariant holds in every reachable state of the shell.              *)
THEOREM Invariance == Spec => []IInv
BY InitIInv, NextKeepsIInv, PTL DEF Spec

(* The tokens of a command fit command_tokens, and the open redirections   *)
(* and the counted children their tables: execute_command's count stays in *)
(* range where it does not overflow (H2, line 149).                        *)
THEOREM TypeCorrect == Spec => []TypeOK
<1>1. IInv => TypeOK
  BY DEF IInv
<1> QED BY <1>1, Invariance, PTL

(* No command outlives its line but when a signal or a full child_pids has *)
(* ended the shell.                                                        *)
THEOREM NoneLeftRunning == Spec => []NoOrphans
<1>1. IInv => NoOrphans
  BY DEF IInv
<1> QED BY <1>1, Invariance, PTL
-----------------------------------------------------------------------------
(* What is left of the line is its end, and what is put together of it is  *)
(* what it says so far.                                                    *)
RestInv == \A i \in DOMAIN rest : rest[i] = line[Len(line) - Len(rest) + i]

SoFarInv ==
    pc = "tokens" /\ WellFormed(line) =>
       /\ First(line, Position) \in 1..Position
       /\ rest # << >> => ~Redirects(line, Position, Position - 1)
       /\ Says(line, Position, command, input_fd, output_fd)

PipeInv == pc = "waitPipe" => Position \in DOMAIN line /\ line[Position] = "|"

LineInv == /\ RestInv /\ SoFarInv /\ PipeInv /\ RunsItsSegment
           /\ pc = "read" => input_fd = "std" /\ output_fd = "std"

LEMMA FirstIs ==
    ASSUME NEW l, NEW p \in Int, NEW q \in Before(l, p), Before(l, p) \subseteq Int,
           \A i \in Before(l, p) : i <= q
    PROVE  First(l, p) = q + 1
<1>1. \A x \in Before(l, p) : (\A y \in Before(l, p) : x >= y) => x = q
  OBVIOUS
<1>2. \A y \in Before(l, p) : q >= y
  OBVIOUS
<1>3. Max(Before(l, p)) = q
  BY <1>1, <1>2 DEF Max
<1> QED BY <1>3 DEF First

(* Behind a pipe, and where the line starts, the line says nothing yet.    *)
LEMMA NewCommand ==
    ASSUME NEW l \in Seq(STRING), NEW p \in 1..(Len(l) + 1), p = 1 \/ l[p - 1] = "|"
    PROVE  /\ First(l, p) \in 1..p /\ ~Redirects(l, p, p - 1)
           /\ Says(l, p, << >>, "std", "std")
<1>1. First(l, p) = p
  <2>1. p - 1 \in Before(l, p) /\ Before(l, p) \subseteq Int /\ \A i \in Before(l, p) : i <= p - 1
    BY DEF Before
  <2>2. First(l, p) = (p - 1) + 1
    BY <2>1, FirstIs
  <2> QED BY <2>2
<1>2. Segment(l, p) = {} /\ Words(l, p) = {} /\ ~Redirects(l, p, p - 1)
  BY <1>1 DEF Segment, Words, Redirects
<1>3. FilesOf(l, p, "<") = {"std"} /\ FilesOf(l, p, ">") = {"std"}
  BY <1>2 DEF FilesOf
<1>4. << >> \in Surjection(DOMAIN << >>, Words(l, p))
  BY <1>2 DEF Surjection
<1> QED BY <1>1, <1>2, <1>3, <1>4 DEF Says

(* A token that is no pipe belongs to the same command.                    *)
LEMMA SameCommand ==
    ASSUME NEW l \in Seq(STRING), NEW p \in 1..Len(l), l[p] # "|"
    PROVE  First(l, p + 1) = First(l, p)
<1>1. Before(l, p + 1) = Before(l, p)
  BY DEF Before
<1> QED BY <1>1 DEF First

(* As long as no redirection of the kind comes, its file stays.            *)
LEMMA SameFile ==
    ASSUME NEW l, NEW p \in Int, NEW q \in Int, p <= q, First(l, q) = First(l, p),
           First(l, p) \in Int, NEW arrow, \A i \in p..(q - 1) : l[i] # arrow
    PROVE  FilesOf(l, p, arrow) \subseteq FilesOf(l, q, arrow)
<1> DEFINE arrows(r) == {i \in Segment(l, r) : l[i] = arrow}
<1>1. arrows(q) = arrows(p) /\ Segment(l, p) \subseteq Segment(l, q)
  BY DEF Segment
<1> QED BY <1>1 DEF FilesOf

(* The last redirection of a kind is the one that counts.                  *)
LEMMA NewFile ==
    ASSUME NEW l, NEW p \in Int, NEW q \in {p + 1, p + 2}, NEW arrow, l[p] = arrow,
           First(l, q) \in Int, First(l, q) <= p, q = p + 2 => l[p + 1] # arrow,
           NEW fd, fd = "none" \/ (q = p + 2 /\ fd = l[p + 1])
    PROVE  fd \in FilesOf(l, q, arrow)
<1> DEFINE arrows == {i \in Segment(l, q) : l[i] = arrow}
<1>1. p \in arrows /\ arrows \subseteq Int /\ \A i \in arrows : i <= p
  BY DEF Segment
<1>2. Max(arrows) = p
  <2>1. \A x \in arrows : (\A y \in arrows : x >= y) => x = p
    BY <1>1
  <2>2. \A y \in arrows : p >= y
    BY <1>1
  <2> HIDE DEF arrows
  <2> QED BY <1>1, <2>1, <2>2 DEF Max
<1>3. q = p + 2 => p + 1 \in Segment(l, q)
  BY DEF Segment
<1>4. FilesOf(l, q, arrow) = {"none"} \cup {l[i] : i \in {p + 1} \cap Segment(l, q)}
  BY <1>1, <1>2 DEF FilesOf
<1> QED BY <1>3, <1>4

LEMMA NewWord ==
    ASSUME NEW l \in Seq(STRING), NEW p \in 1..Len(l), l[p] \notin Arrows \cup {"|"},
           First(l, p) \in 1..p, ~Redirects(l, p, p - 1),
           NEW words \in Seq(STRING), NEW in, NEW out, Says(l, p, words, in, out)
    PROVE  /\ First(l, p + 1) \in 1..(p + 1) /\ ~Redirects(l, p + 1, p)
           /\ Says(l, p + 1, Append(words, l[p]), in, out)
<1>1. First(l, p + 1) = First(l, p)
  BY SameCommand
<1>2. ~Redirects(l, p + 1, p)
  BY DEF Redirects
<1>3. Words(l, p + 1) = Words(l, p) \cup {p} /\ Words(l, p) \subseteq 1..(p - 1)
  BY <1>1 DEF Words, Segment, Redirects
<1>4. in \in FilesOf(l, p + 1, "<") /\ out \in FilesOf(l, p + 1, ">")
  <2>1. l[p] # "<" /\ l[p] # ">"
    BY DEF Arrows
  <2>2. /\ FilesOf(l, p, "<") \subseteq FilesOf(l, p + 1, "<")
        /\ FilesOf(l, p, ">") \subseteq FilesOf(l, p + 1, ">")
    BY <1>1, <2>1, SameFile
  <2> QED BY <2>2 DEF Says
<1> DEFINE more == Append(words, l[p])
           n    == Len(words)
<1>5. /\ n \in Nat /\ DOMAIN words = 1..n /\ DOMAIN more = 1..(n + 1)
      /\ more[n + 1] = l[p] /\ \A k \in 1..n : more[k] = words[k]
  OBVIOUS
<1>6. PICK place \in Surjection(DOMAIN words, Words(l, p)) :
          /\ \A j, k \in DOMAIN words : j < k => place[j] < place[k]
          /\ \A k \in DOMAIN words : words[k] = l[place[k]]
  BY DEF Says
<1> DEFINE wider == [k \in 1..(n + 1) |-> IF k = n + 1 THEN p ELSE place[k]]
<1> HIDE DEF more, n
<1>7. /\ place \in [1..n -> Words(l, p)]
      /\ \A i \in Words(l, p) : \E k \in 1..n : place[k] = i
  BY <1>5, <1>6 DEF Surjection
<1>8. wider \in Surjection(DOMAIN more, Words(l, p + 1))
  <2>1. wider \in [1..(n + 1) -> Words(l, p + 1)]
    BY <1>3, <1>5, <1>7
  <2>2. ASSUME NEW i \in Words(l, p + 1) PROVE \E k \in 1..(n + 1) : wider[k] = i
    <3>1. CASE i = p
      BY <1>5, <3>1
    <3>2. CASE i \in Words(l, p)
      BY <1>5, <1>7, <3>2
    <3> QED BY <1>3, <3>1, <3>2
  <2> QED BY <1>5, <2>1, <2>2 DEF Surjection
<1>9. \A j, k \in DOMAIN more : j < k => wider[j] < wider[k]
  BY <1>3, <1>5, <1>6, <1>7
<1>10. \A k \in DOMAIN more : more[k] = l[wider[k]]
  BY <1>5, <1>6
<1> HIDE DEF wider
<1>11. \E place_ \in Surjection(DOMAIN more, Words(l, p + 1)) :
          /\ \A j, k \in DOMAIN more : j < k => place_[j] < place_[k]
          /\ \A k \in DOMAIN more : more[k] = l[place_[k]]
  BY <1>8, <1>9, <1>10
<1> QED BY <1>1, <1>2, <1>4, <1>11 DEF Says, more

LEMMA NewRedirection ==
    ASSUME NEW l \in Seq(STRING), WellFormed(l), NEW p \in 1..Len(l), l[p] \in Arrows,
           First(l, p) \in 1..p, ~Redirects(l, p, p - 1),
           NEW words, NEW in, NEW out, Says(l, p, words, in, out),
           NEW fd, fd = "none" \/ (p < Len(l) /\ fd = l[p + 1]),
           NEW q \in Nat, p = Len(l) => q = p + 1, p < Len(l) => q = p + 2
    PROVE  /\ First(l, q) \in 1..q
           /\ q <= Len(l) => ~Redirects(l, q, q - 1)
           /\ l[p] = ">" => Says(l, q, words, in, fd)
           /\ l[p] = "<" => Says(l, q, words, fd, out)
<1>0. Len(l) \in Nat /\ q \in {p + 1, p + 2}
  OBVIOUS
<1>1. p < Len(l) => l[p + 1] \notin Arrows \cup {"|"}
  BY <1>0 DEF WellFormed
<1>2. First(l, q) = First(l, p)
  <2>1. First(l, p + 1) = First(l, p)
    BY SameCommand DEF Arrows
  <2>2. ASSUME p < Len(l) PROVE First(l, (p + 1) + 1) = First(l, p + 1)
    BY <1>0, <1>1, <2>2, SameCommand
  <2> QED BY <1>0, <2>1, <2>2
<1>3. q <= Len(l) => ~Redirects(l, q, q - 1)
  BY <1>0, <1>1 DEF Redirects
<1>4. Words(l, q) = Words(l, p)
  <2>1. Redirects(l, q, p)
    BY <1>2 DEF Redirects
  <2>2. \A i : Redirects(l, q, i) = Redirects(l, p, i)
    BY <1>2 DEF Redirects
  <2>3. \A i \in p..(q - 1) : Redirects(l, q, i) \/ Redirects(l, q, i - 1)
    BY <1>0, <2>1
  <2> QED BY <1>0, <1>2, <2>2, <2>3 DEF Words, Segment
<1>5. \A arrow \in Arrows : l[p] # arrow => FilesOf(l, p, arrow) \subseteq FilesOf(l, q, arrow)
  <2>1. ASSUME NEW arrow \in Arrows, l[p] # arrow, NEW i \in p..(q - 1) PROVE l[i] # arrow
    BY <1>0, <1>1, <2>1
  <2> QED BY <1>0, <1>2, <2>1, SameFile
<1>6. fd \in FilesOf(l, q, l[p])
  <2>1. q = p + 2 => l[p + 1] # l[p]
    BY <1>0, <1>1
  <2>2. fd = "none" \/ (q = p + 2 /\ fd = l[p + 1])
    BY <1>0
  <2>3. First(l, q) \in Int /\ First(l, q) <= p
    BY <1>2
  <2>4. p \in Int
    OBVIOUS
  <2> QED BY <1>0, <2>1, <2>2, <2>3, <2>4, NewFile
<1> QED BY <1>0, <1>2, <1>3, <1>4, <1>5, <1>6 DEF Says, Arrows

(* The next token, and what is left when some of the tokens are taken.     *)
LEMMA NextToken ==
    ASSUME IInv, LineInv, pc = "tokens", rest # << >>
    PROVE  /\ Position \in 1..Len(line) /\ rest[1] = line[Position]
           /\ Len(rest) = 1 => Position = Len(line)
           /\ Len(rest) > 1 => Position < Len(line) /\ rest[2] = line[Position + 1]
<1>1. /\ line \in Seq(STRING) /\ rest \in Seq(STRING)
      /\ Len(line) \in Nat /\ Len(rest) \in 1..Len(line)
      /\ \A i \in 1..Len(rest) : rest[i] = line[Len(line) - Len(rest) + i]
  BY DEF IInv, TypeOK, TokensInv, LineInv, RestInv
<1>2. Position = Len(line) - Len(rest) + 1
  BY DEF Position
<1> QED BY <1>1, <1>2

LEMMA RestShrinks ==
    ASSUME IInv, LineInv, line' = line,
           NEW n \in Nat, rest' = SubSeq(rest, n + 1, Len(rest))
    PROVE  RestInv'
<1>1. /\ rest \in Seq(STRING) /\ Len(rest) \in Nat /\ Len(line) \in Nat
      /\ \A i \in 1..Len(rest) : rest[i] = line[Len(line) - Len(rest) + i]
  BY DEF IInv, TokensInv, LineInv, RestInv
<1>2. CASE n >= Len(rest)
  BY <1>1, <1>2 DEF RestInv
<1>3. CASE n < Len(rest)
  <2>1. /\ Len(rest') = Len(rest) - n /\ DOMAIN rest' = 1..Len(rest')
        /\ \A i \in 1..Len(rest') : rest'[i] = rest[i + n]
    BY <1>1, <1>3
  <2>2. ASSUME NEW i \in 1..Len(rest')
        PROVE  rest'[i] = line[Len(line) - Len(rest') + i]
    <3>1. i + n \in 1..Len(rest)
      BY <1>1, <1>3, <2>1
    <3>2. rest'[i] = line[Len(line) - Len(rest) + (i + n)]
      BY <1>1, <2>1, <3>1
    <3>3. Len(line) - Len(rest) + (i + n) = Len(line) - Len(rest') + i
      <4> DEFINE left == Len(rest')
      <4>1. left = Len(rest) - n /\ i \in Int
        BY <2>1
      <4> HIDE DEF left
      <4>2. Len(line) - Len(rest) + (i + n) = Len(line) - left + i
        BY <1>1, <4>1
      <4> QED BY <4>2 DEF left
    <3> QED BY <3>2, <3>3
  <2> QED BY <2>1, <2>2 DEF RestInv
<1> QED BY <1>1, <1>2, <1>3

LEMMA LineStarts ==
    ASSUME IInv, LineInv, pc = "read", pc' = "tokens", line' \in Seq(STRING), rest' = line',
           UNCHANGED <<command, input_fd, output_fd>>
    PROVE  LineInv'
<1>1. Position' = 1 /\ 1 \in 1..(Len(line') + 1)
  BY DEF Position
<1>2. command' = << >> /\ input_fd' = "std" /\ output_fd' = "std"
  BY DEF IInv, TokensInv, LineInv
<1>3. /\ First(line', 1) \in 1..1 /\ ~Redirects(line', 1, 1 - 1)
      /\ Says(line', 1, << >>, "std", "std")
  BY <1>1, NewCommand
<1>4. SoFarInv'
  BY <1>1, <1>2, <1>3 DEF SoFarInv
<1>5. RestInv' /\ PipeInv' /\ RunsItsSegment'
  BY DEF RestInv, PipeInv, RunsItsSegment, Waiting
<1> QED BY <1>4, <1>5 DEF LineInv

LEMMA ReadNothingLine ==
    ASSUME IInv, LineInv, pc = "read", ReadNothing, UNCHANGED <<command, fdVars>>
    PROVE  LineInv'
<1>1. line' \in Seq(STRING)
  <2>1. CASE line = << >>
    BY <2>1 DEF ReadNothing
  <2>2. CASE line # << >>
    BY <2>2 DEF IInv, TokensInv, ReadNothing
  <2> QED BY <2>1, <2>2
<1> QED BY <1>1, LineStarts DEF ReadNothing, fdVars

LEMMA WordKeepsLine == IInv /\ LineInv /\ Word => LineInv'
<1> SUFFICES ASSUME IInv, LineInv, Word PROVE LineInv'
  OBVIOUS
<1>1. /\ Position \in 1..Len(line) /\ rest[1] = line[Position]
      /\ rest[1] \notin Arrows \cup {"|"}
  BY NextToken DEF Word, Arrows
<1>2. /\ rest' = SubSeq(rest, 1 + 1, Len(rest)) /\ Len(rest') = Len(rest) - 1
      /\ command' = Append(command, line[Position])
      /\ line \in Seq(STRING) /\ command \in Seq(STRING)
      /\ Len(rest) \in Nat /\ Len(line) \in Nat
  BY <1>1 DEF Word, IInv, TokensInv
<1>3. /\ pc = "tokens" /\ pc' = "tokens" /\ rest # << >>
      /\ UNCHANGED <<line, input_fd, output_fd>>
  BY DEF Word, fdVars
<1>4. Position' = Position + 1
  <2>1. Len(rest') = Len(rest) - 1 /\ Len(rest) \in Nat /\ Len(line) \in Nat
    BY <1>2
  <2>2. line' = line /\ pc' # "waitPipe" /\ pc # "waitPipe"
    BY <1>3
  <2> QED BY <2>1, <2>2 DEF Position
<1>5. SoFarInv'
  <2>1. SUFFICES ASSUME WellFormed(line)
                 PROVE  /\ First(line, Position + 1) \in 1..(Position + 1)
                        /\ ~Redirects(line, Position + 1, Position)
                        /\ Says(line, Position + 1, command', input_fd, output_fd)
    <3>1. (Position + 1) - 1 = Position
      BY <1>1
    <3> QED BY <1>3, <1>4, <3>1 DEF SoFarInv
  <2>2. /\ First(line, Position) \in 1..Position /\ ~Redirects(line, Position, Position - 1)
        /\ Says(line, Position, command, input_fd, output_fd)
    BY <1>3, <2>1 DEF LineInv, SoFarInv
  <2> QED BY <1>1, <1>2, <2>2, NewWord
<1>6. RestInv'
  BY <1>2, <1>3, RestShrinks
<1>7. PipeInv' /\ RunsItsSegment'
  BY <1>3 DEF PipeInv, RunsItsSegment, Waiting
<1> QED BY <1>3, <1>5, <1>6, <1>7 DEF LineInv

LEMMA RedirectKeepsLine == IInv /\ LineInv /\ Redirect => LineInv'
<1> SUFFICES ASSUME IInv, LineInv, Redirect PROVE LineInv'
  OBVIOUS
<1>1. /\ pc = "tokens" /\ pc' = "tokens" /\ rest # << >> /\ rest[1] \in Arrows
      /\ UNCHANGED <<line, command>> /\ rest' = SubSeq(rest, 2 + 1, Len(rest))
  BY DEF Redirect, Arrows
<1>2. /\ Position \in 1..Len(line) /\ rest[1] = line[Position]
      /\ Len(rest) = 1 => Position = Len(line)
      /\ Len(rest) > 1 => Position < Len(line) /\ rest[2] = line[Position + 1]
  BY <1>1, NextToken
<1>3. /\ line \in Seq(STRING) /\ rest \in Seq(STRING)
      /\ Len(rest) \in Nat /\ Len(rest) >= 1 /\ Len(line) \in Nat
  BY <1>1 DEF IInv, TokensInv
<1>4. PICK fd \in {"none"} \cup {rest[i] : i \in {2} \cap DOMAIN rest} :
          IF rest[1] = ">" THEN output_fd' = fd /\ UNCHANGED input_fd
                           ELSE input_fd' = fd /\ UNCHANGED output_fd
  BY DEF Redirect
<1>5. fd = "none" \/ (Position < Len(line) /\ fd = line[Position + 1])
  BY <1>2, <1>3, <1>4
<1>6. /\ Len(rest) = 1 => Len(rest') = 0
      /\ Len(rest) > 1 => Len(rest') = Len(rest) - 2
  <2>1. ASSUME Len(rest) < 3 PROVE Len(rest') = 0
    BY <1>1, <2>1, <1>3, SubSeqEmpty
  <2>2. ASSUME ~(Len(rest) < 3) PROVE Len(rest') = Len(rest) - 2
    BY <1>1, <1>3, <2>2
  <2> DEFINE left == Len(rest')
             n    == Len(rest)
  <2>3. n \in Nat /\ (n < 3 => left = 0) /\ (~(n < 3) => left = n - 2)
    BY <1>3, <2>1, <2>2
  <2> HIDE DEF left, n
  <2>4. (n = 1 => left = 0) /\ (n > 1 => left = n - 2)
    BY <2>3
  <2> QED BY <2>4 DEF left, n
<1>7. /\ Position' \in Nat
      /\ Position = Len(line) => Position' = Position + 1
      /\ Position < Len(line) => Position' = Position + 2
      /\ rest' # << >> => Position' <= Len(line)
  <2>1. /\ Position = Len(line) - Len(rest) + 1
        /\ Position' = Len(line) - Len(rest') + 1
    BY <1>1 DEF Position
  <2>2. rest' \in Seq(STRING) /\ (rest' # << >> => Len(rest') >= 1)
    BY <1>1, <1>3
  <2> DEFINE left == Len(rest')
             n    == Len(rest)
  <2>3. /\ left \in Nat /\ n \in Nat /\ n >= 1 /\ (rest' # << >> => left >= 1)
        /\ Position = Len(line) - n + 1 /\ Position' = Len(line) - left + 1
        /\ (n = 1 => Position = Len(line) /\ left = 0)
        /\ (n > 1 => Position < Len(line) /\ left = n - 2)
    BY <1>2, <1>3, <1>6, <2>1, <2>2
  <2> HIDE DEF left, n
  <2> QED BY <1>2, <1>3, <2>3
<1>8. SoFarInv'
  <2>1. SUFFICES ASSUME WellFormed(line)
                 PROVE  /\ First(line, Position') \in 1..Position'
                        /\ Position' <= Len(line) => ~Redirects(line, Position', Position' - 1)
                        /\ Says(line, Position', command, input_fd', output_fd')
    BY <1>1, <1>7 DEF SoFarInv
  <2>2. /\ First(line, Position) \in 1..Position /\ ~Redirects(line, Position, Position - 1)
        /\ Says(line, Position, command, input_fd, output_fd)
    BY <1>1, <2>1 DEF LineInv, SoFarInv
  <2>3. /\ First(line, Position') \in 1..Position'
        /\ Position' <= Len(line) => ~Redirects(line, Position', Position' - 1)
        /\ line[Position] = ">" => Says(line, Position', command, input_fd, fd)
        /\ line[Position] = "<" => Says(line, Position', command, fd, output_fd)
    BY <1>1, <1>2, <1>3, <1>5, <1>7, <2>1, <2>2, NewRedirection
  <2> QED BY <1>1, <1>2, <1>4, <2>3 DEF Arrows
<1>9. RestInv'
  BY <1>1, RestShrinks
<1>10. PipeInv' /\ RunsItsSegment'
  BY <1>1 DEF PipeInv, RunsItsSegment, Waiting
<1> QED BY <1>1, <1>8, <1>9, <1>10 DEF LineInv

(* The child is given what has been put together up to the pipe, or up to  *)
(* the end of the line.                                                    *)
LEMMA ExecuteKeepsLine == IInv /\ LineInv /\ Execute => LineInv'
<1> SUFFICES ASSUME IInv, LineInv, Execute PROVE LineInv'
  OBVIOUS
<1>1. /\ pc = "tokens" /\ pc' \in {"waitPipe", "waitLast", "dead"}
      /\ UNCHANGED <<line, command, input_fd, output_fd>>
      /\ \/ pc' = "dead"
         \/ child' = [words |-> command, in |-> input_fd, out |-> output_fd]
      /\ \/ rest' = rest /\ pc' # "waitPipe"
         \/ rest # << >> /\ rest[1] = "|" /\ rest' = Tail(rest) /\ pc' # "waitLast"
  BY DEF Execute, fdVars
<1>2. rest \in Seq(STRING) /\ Len(rest) \in Nat /\ Len(line) \in Nat
  BY DEF IInv, TokensInv
<1>3. RestInv'
  <2>1. CASE rest' = rest
    BY <1>1, <2>1 DEF LineInv, RestInv
  <2>2. CASE rest # << >> /\ rest' = Tail(rest)
    <3>1. rest' = SubSeq(rest, 1 + 1, Len(rest))
      BY <1>2, <2>2
    <3> QED BY <1>1, <3>1, RestShrinks
  <2> QED BY <1>1, <2>1, <2>2
<1>4. pc' # "dead" => Position' = Position
  <2>1. CASE rest' = rest /\ pc' # "waitPipe"
    BY <1>1, <2>1 DEF Position
  <2>2. CASE rest # << >> /\ rest' = Tail(rest) /\ pc' # "waitLast"
    <3>1. Len(rest') = Len(rest) - 1
      BY <1>2, <2>2
    <3>2. /\ pc = "tokens" /\ (pc' # "dead" => pc' = "waitPipe") /\ line' = line
      BY <1>1, <2>2
    <3> HIDE <2>2
    <3> QED BY <1>2, <3>1, <3>2 DEF Position
  <2> QED BY <1>1, <2>1, <2>2
<1>5. PipeInv'
  BY <1>1, <1>2, <1>4, NextToken DEF PipeInv
<1>6. RunsItsSegment'
  <2>1. SUFFICES ASSUME pc' # "dead", WellFormed(line)
                 PROVE  Says(line, Position, command, input_fd, output_fd)
    BY <1>1, <1>4 DEF RunsItsSegment, Waiting
  <2> QED BY <1>1, <2>1 DEF LineInv, SoFarInv
<1>7. SoFarInv' /\ pc' # "read"
  BY <1>1 DEF SoFarInv
<1> QED BY <1>3, <1>5, <1>6, <1>7 DEF LineInv

LEMMA WaitKeepsLine == IInv /\ LineInv /\ Wait => LineInv'
<1> SUFFICES ASSUME IInv, LineInv, Wait PROVE LineInv'
  OBVIOUS
<1>1. /\ pc' = IF pc = "waitPipe" THEN "tokens" ELSE "read"
      /\ UNCHANGED <<line, rest>>
      /\ command' = << >> /\ input_fd' = "std" /\ output_fd' = "std"
  BY DEF Wait, ResetFds, ResetCommand
<1>2. SoFarInv'
  <2>1. SUFFICES ASSUME pc = "waitPipe" PROVE SoFarInv'
    BY <1>1 DEF SoFarInv
  <2>2. /\ line \in Seq(STRING) /\ Len(line) \in Nat /\ Len(rest) \in Nat
        /\ Position \in 1..Len(line) /\ line[Position] = "|"
    BY <2>1 DEF IInv, TokensInv, LineInv, PipeInv
  <2>3. Position' = Position + 1
    BY <1>1, <2>1, <2>2 DEF Position
  <2>4. Position' \in 1..(Len(line) + 1) /\ line[Position' - 1] = "|"
    BY <2>2, <2>3
  <2>5. /\ First(line, Position') \in 1..Position' /\ ~Redirects(line, Position', Position' - 1)
        /\ Says(line, Position', << >>, "std", "std")
    BY <2>2, <2>4, NewCommand
  <2> QED BY <1>1, <2>5 DEF SoFarInv
<1>3. RestInv' /\ PipeInv' /\ RunsItsSegment'
  BY <1>1 DEF LineInv, RestInv, PipeInv, RunsItsSegment, Waiting
<1> QED BY <1>1, <1>2, <1>3 DEF LineInv

LEMMA QuietStepKeepsLine ==
    ASSUME LineInv, UNCHANGED <<line, rest, command, input_fd, output_fd, child>>,
           pc' \in {pc, "dead"}
    PROVE  LineInv'
BY DEF LineInv, RestInv, SoFarInv, PipeInv, RunsItsSegment, Waiting, Position

LEMMA NextKeepsLine == IInv /\ LineInv /\ [Next]_vars => LineInv'
<1> SUFFICES ASSUME IInv, LineInv, [Next]_vars PROVE LineInv'
  OBVIOUS
<1>1. CASE ReadLine
  <2>1. line' \in Seq(STRING)
    BY <1>1 DEF ReadLine
  <2> QED BY <1>1, <2>1, LineStarts DEF ReadLine, fdVars
<1>2. CASE EndOfInput
  BY <1>2, ReadNothingLine DEF EndOfInput
<1>3. CASE Quit \/ ChildEnds \/ Rest \/ UNCHANGED vars
  BY <1>3, QuietStepKeepsLine DEF Quit, ChildEnds, Rest, vars, fdVars, childVars
<1>4. ASSUME NEW s \in Signals, Signal(s) PROVE LineInv'
  BY <1>4, ReadNothingLine, QuietStepKeepsLine DEF Signal, fdVars, childVars
<1> QED
  BY <1>1, <1>2, <1>3, <1>4, WordKeepsLine, RedirectKeepsLine, ExecuteKeepsLine, WaitKeepsLine
     DEF Next

LEMMA InitLine == Init => LineInv
BY DEF Init, LineInv, RestInv, SoFarInv, PipeInv, RunsItsSegment, Waiting

(* Every command of a well-formed line runs with the words and the         *)
(* redirections between its two pipes, and with no others: nothing is left *)
(* of the command before it, nor of a line that a signal or the end of the *)
(* input has cut behind its first token (lines 44-112).                    *)
THEOREM RunsSegments == Spec => []RunsItsSegment
<1>1. LineInv => RunsItsSegment
  BY DEF LineInv
<1>2. Init => IInv /\ LineInv
  BY InitIInv, InitLine
<1>3. IInv /\ LineInv /\ [Next]_vars => (IInv /\ LineInv)'
  BY NextKeepsIInv, NextKeepsLine
<1> QED BY <1>1, <1>2, <1>3, PTL DEF Spec
=============================================================================
