-------------------------- MODULE AssemblerProofs --------------------------
(***************************************************************************)
(* Proofs about the two assemblers, and about the linker that they call.   *)
(*                                                                         *)
(* Assembler24, for all programs, macros, files, sizes of a bank and       *)
(* banks: each reference ends with the value of the definition it means.   *)
(* QueueInv says that the tokens that wait are those of the program and of *)
(* its macros, and what each open file is local to; TablesInv that no      *)
(* table of labels says of a name what none of its definitions does;       *)
(* UsesInv that each word with a label has such a value, or is one to      *)
(* patch; EntryInv the same of .ENTRY; and BelowHigh, BanksInv and         *)
(* ApartInv where the words are.  The patching is a function over the      *)
(* references, and what it leaves in a word is shown by going through it.  *)
(***************************************************************************)
EXTENDS Assembler24, Linker, SequenceTheorems, FiniteSetTheorems, WellFoundedInduction, TLAPS

\* A set of numbers has a least element.
LEMMA Least ==
  ASSUME NEW T \in SUBSET Nat, T # {}
  PROVE  \E k \in T : \A j \in T : ~ (j < k)
<1> DEFINE R == {p \in Nat \X Nat : p[1] < p[2]}
<1>1. IsWellFoundedOn(R, Nat)
  BY NatLessThanWellFounded DEF OpToRel
<1> HIDE DEF R
<1>2. \E k \in T : \A j \in T : ~ (<<j, k>> \in R)
  BY <1>1, WFMin
<1> QED
  BY <1>2 DEF R

\* So a set with 0 that goes on from each number below n to the next has all of them.
LEMMA CountsUp ==
  ASSUME NEW n \in Nat, NEW T, 0 \in T, \A k \in 0 .. n : k # n /\ k \in T => k + 1 \in T
  PROVE  0 .. n \subseteq T
<1> DEFINE U == {k \in 0 .. n : k \notin T}
<1> SUFFICES ASSUME U # {} PROVE FALSE
  OBVIOUS
<1>1. PICK k \in U : \A j \in U : ~ (j < k)
  <2>1. U \in SUBSET Nat
    OBVIOUS
  <2> HIDE DEF U
  <2> QED
    BY <2>1, Least
<1>2. k # 0 /\ k - 1 \in 0 .. n /\ k - 1 # n /\ k - 1 < k /\ (k - 1) + 1 = k
  OBVIOUS
<1>3. k - 1 \in T
  BY <1>1, <1>2
<1> QED
  BY <1>2, <1>3

-----------------------------------------------------------------------------
(***************************************************************************)
(* Functions that go through a text, or through the references.            *)
(***************************************************************************)
\* What is done to X from x on, in n steps.
Through(X, x, step, f, n) ==
  /\ f \in [0 .. n -> X] /\ f[0] = x
  /\ \A i \in 1 .. n : f[i] = step[<<f[i - 1], i>>]

\* There is a function that does it.
LEMMA ThroughExists ==
  ASSUME NEW X, NEW x \in X, NEW n \in Nat, NEW step \in [X \X (1 .. n) -> X]
  PROVE  \E f : Through(X, x, step, f, n)
<1> DEFINE T == {k \in Nat : \E f : Through(X, x, step, f, k)}
<1>1. 0 \in T
  <2>1. Through(X, x, step, [i \in 0 .. 0 |-> x], 0)
    BY DEF Through
  <2> QED
    BY <2>1
<1>2. ASSUME NEW k \in 0 .. n, k # n, k \in T PROVE k + 1 \in T
  <2>1. PICK g : Through(X, x, step, g, k)
    BY <1>2
  <2> DEFINE f == [i \in 0 .. k + 1 |-> IF i = k + 1 THEN step[<<g[k], k + 1>>] ELSE g[i]]
  <2>2. g \in [0 .. k -> X] /\ k \in 0 .. k /\ k + 1 \in 1 .. n
    BY <1>2, <2>1 DEF Through
  <2>3. step[<<g[k], k + 1>>] \in X
    BY <2>2
  <2>4. f \in [0 .. k + 1 -> X]
    <3>1. \A i \in 0 .. k + 1 : i # k + 1 => g[i] \in X
      BY <2>2
    <3> QED
      BY <2>3, <3>1
  <2>5. f[0] = x
    BY <2>1 DEF Through
  <2>6. ASSUME NEW i \in 1 .. k + 1 PROVE f[i] = step[<<f[i - 1], i>>]
    <3>1. CASE i = k + 1
      <4>1. i - 1 = k /\ k \in 0 .. k + 1 /\ k # k + 1
        BY <3>1
      <4>2. f[i - 1] = g[k]
        BY <4>1
      <4>3. f[i] = step[<<g[k], i>>]
        BY <3>1
      <4> QED
        BY <4>2, <4>3
    <3>2. CASE i # k + 1
      <4>1. i \in 1 .. k /\ i - 1 \in 0 .. k + 1 /\ i - 1 # k + 1
        BY <3>2
      <4>2. f[i] = g[i] /\ f[i - 1] = g[i - 1]
        BY <3>2, <4>1
      <4>3. g[i] = step[<<g[i - 1], i>>]
        BY <2>1, <4>1 DEF Through
      <4> QED
        BY <4>2, <4>3
    <3> QED
      BY <3>1, <3>2
  <2> HIDE DEF f
  <2>7. Through(X, x, step, f, k + 1)
    BY <2>4, <2>5, <2>6 DEF Through
  <2> QED
    BY <2>7
<1> HIDE DEF T
<1>3. n \in T
  BY <1>1, <1>2, CountsUp
<1> QED
  BY <1>3 DEF T

\* The last of a sequence, and what is before it.
LEMMA LastOf ==
  ASSUME NEW S, NEW s \in Seq(S), s # <<>>
  PROVE  /\ Len(s) \in Nat \ {0} /\ Last(s) \in S /\ Len(s) \in DOMAIN s
         /\ Front(s) \in Seq(S) /\ Len(Front(s)) = Len(s) - 1
         /\ \A i \in 1 .. Len(s) - 1 : Front(s)[i] = s[i]
<1>1. Len(s) \in Nat \ {0} /\ DOMAIN s = 1 .. Len(s)
  BY EmptySeq, LenProperties
<1>2. Last(s) \in S
  BY <1>1, ElementOfSeq DEF Last
<1>3. \A i \in 1 .. Len(s) - 1 : s[i] \in S
  BY <1>1, ElementOfSeq
<1>4. 1 \in Int /\ Len(s) - 1 \in Int
  BY <1>1
<1>5. /\ Front(s) \in Seq(S)
      /\ Len(Front(s)) = IF 1 <= Len(s) - 1 THEN (Len(s) - 1) - 1 + 1 ELSE 0
      /\ \A i \in 1 .. (Len(s) - 1) - 1 + 1 : Front(s)[i] = s[1 + i - 1]
  BY <1>3, <1>4, SubSeqProperties DEF Front
<1>6. Len(Front(s)) = Len(s) - 1
  <2>1. CASE 1 <= Len(s) - 1
    BY <1>1, <1>5, <2>1
  <2>2. CASE ~ (1 <= Len(s) - 1)
    BY <1>1, <1>5, <2>2
  <2> QED
    BY <2>1, <2>2
<1>7. ASSUME NEW i \in 1 .. Len(s) - 1 PROVE Front(s)[i] = s[i]
  <2>1. i \in 1 .. (Len(s) - 1) - 1 + 1 /\ 1 + i - 1 = i
    BY <1>1
  <2> QED
    BY <1>5, <2>1
<1>8. Len(s) \in DOMAIN s
  BY <1>1
<1> QED
  BY <1>1, <1>2, <1>5, <1>6, <1>7, <1>8

\* A sequence is one of what its elements are in.
LEMMA IsSeqOf ==
  ASSUME NEW S, NEW R, NEW s \in Seq(R), \A i \in 1 .. Len(s) : s[i] \in S
  PROVE  s \in Seq(S)
<1>1. Len(s) \in Nat /\ DOMAIN s = 1 .. Len(s) /\ s \in [1 .. Len(s) -> R]
  BY LenProperties
<1>2. s \in [1 .. Len(s) -> S]
  BY <1>1
<1> QED
  BY <1>1, <1>2, SeqDef

-----------------------------------------------------------------------------
(***************************************************************************)
(* The queue of commands holds tokens.                                     *)
(***************************************************************************)
\* Whether a line that was read moves the place of the code.
Moved == \E i \in DOMAIN src : Moves(src[i].line)

\* The tokens that may still be executed.
Queued == {token \in Tokens : Moved \/ token.t \notin {".", ".ORG"}}

CommandsOf(tokens) == Seq(tokens) \ {<<>>}
Commands == CommandsOf(Queued)

\* Each file is local to itself, or to no file when I or nothing loads it.
Scoped(frame) ==
  IF frame.lorg = "local" THEN frame.file \in Libs /\ frame.local = frame.file
                          ELSE frame.file \notin Libs

Files == {Main} \cup Libs \cup Incs

\* Files that are open, with these commands in their queues.
Frames(cmds) ==
  [file : Files, lorg : {"global", "local"}, local : {Main} \cup Libs, cmdq : Seq(cmds)]

Opened(frames, cmds) ==
  frames \in Seq(Frames(cmds)) /\ frames # <<>> /\ \A i \in DOMAIN frames : Scoped(frames[i])

QueueInv ==
  /\ Opened(open, Commands)
  /\ unique \in Nat /\ MacroStack \in Seq(Nat)
  /\ src \in Seq([file : Files, line : Texts, at : Nat, counts : BOOLEAN])

\* A token with another number is of the same command.
LEMMA Retagged ==
  ASSUME NEW token \in Queued, NEW n \in Int
  PROVE  [token EXCEPT !.at = n] \in Queued
<1>1. [token EXCEPT !.at = n] \in Tokens
  BY DEF Queued, Tokens
<1>2. [token EXCEPT !.at = n].t = token.t
  BY DEF Queued, Tokens
<1> QED
  BY <1>1, <1>2 DEF Queued

\* The commands that are split so far: only the last may be empty.
Splits(Q) ==
  {cmds \in Seq(Seq(Q)) : cmds # <<>> /\ \A i \in 1 .. Len(cmds) - 1 : cmds[i] # <<>>}

LEMMA PutSplits ==
  ASSUME NEW Q, NEW cmds \in Splits(Q), NEW token \in Q
  PROVE  Put(cmds, token) \in Splits(Q)
<1>1. cmds \in Seq(Seq(Q)) /\ cmds # <<>> /\ \A i \in 1 .. Len(cmds) - 1 : cmds[i] # <<>>
  BY DEF Splits
<1>2. /\ Len(cmds) \in Nat \ {0} /\ Last(cmds) = cmds[Len(cmds)]
      /\ cmds[Len(cmds)] \in Seq(Q)
  BY <1>1, LastOf DEF Last
<1>3. CASE token.t # ";"
  <2> DEFINE e == Append(cmds[Len(cmds)], token)
             more == [cmds EXCEPT ![Len(cmds)] = e]
  <2>1. e \in Seq(Q)
    BY <1>2, AppendProperties
  <2> HIDE DEF e
  <2>2. /\ more \in Seq(Seq(Q)) /\ Len(more) = Len(cmds)
        /\ \A j \in 1 .. Len(cmds) : more[j] = IF j = Len(cmds) THEN e ELSE cmds[j]
    BY <1>1, <1>2, <2>1, ExceptSeq
  <2>3. more # <<>>
    BY <1>2, <2>2, EmptySeq
  <2>4. Put(cmds, token) = more
    BY <1>3 DEF Put, e
  <2> HIDE DEF more
  <2> QED
    BY <1>1, <1>2, <2>2, <2>3, <2>4 DEF Splits
<1>4. CASE token.t = ";" /\ Last(cmds) = <<>>
  BY <1>4 DEF Put
<1>5. CASE token.t = ";" /\ Last(cmds) # <<>>
  <2>1. <<>> \in Seq(Q)
    BY EmptySeq
  <2>2. /\ Append(cmds, <<>>) \in Seq(Seq(Q)) /\ Append(cmds, <<>>) # <<>>
        /\ Len(Append(cmds, <<>>)) = Len(cmds) + 1
        /\ \A i \in 1 .. Len(cmds) : Append(cmds, <<>>)[i] = cmds[i]
    BY <1>1, <2>1, AppendProperties
  <2>3. Put(cmds, token) = Append(cmds, <<>>)
    BY <1>5 DEF Put
  <2> DEFINE more == Append(cmds, <<>>)
  <2>4. \A i \in 1 .. Len(more) - 1 : more[i] # <<>>
    <3> HIDE DEF more
    <3>1. ASSUME NEW i \in 1 .. Len(more) - 1 PROVE more[i] # <<>>
      <4>1. i \in 1 .. Len(cmds) /\ more[i] = cmds[i]
        BY <1>2, <2>2 DEF more
      <4>2. i \in 1 .. Len(cmds) - 1 \/ i = Len(cmds)
        BY <1>2, <4>1
      <4> QED
        BY <1>1, <1>2, <1>5, <4>1, <4>2
    <3> QED
      BY <3>1
  <2> HIDE DEF more
  <2>5. more \in Splits(Q)
    BY <2>2, <2>4 DEF Splits, more
  <2> QED
    BY <2>3, <2>5 DEF more
<1> QED
  BY <1>3, <1>4, <1>5

\* A text is split into commands.
LEMMA SplitTyped ==
  ASSUME NEW Q, NEW text \in Seq(Q)
  PROVE  split_source_commands(text) \in Seq(CommandsOf(Q))
<1> DEFINE n == Len(text)
           Is(f) == f = [i \in 0 .. n |-> IF i = 0 THEN << <<>> >> ELSE Put(f[i - 1], text[i])]
           f == CHOOSE f : Is(f)
           step == [p \in Splits(Q) \X (1 .. n) |-> Put(p[1], text[p[2]])]
<1>1. n \in Nat /\ \A i \in 1 .. n : text[i] \in Q
  BY LenProperties, ElementOfSeq
<1>2. << <<>> >> \in Splits(Q)
  <2>1. <<>> \in Seq(Q)
    BY EmptySeq
  <2> QED
    BY <2>1 DEF Splits
<1>3. step \in [Splits(Q) \X (1 .. n) -> Splits(Q)]
  BY <1>1, PutSplits
<1>4. \E g : Is(g)
  <2> HIDE DEF step
  <2>1. PICK g : Through(Splits(Q), << <<>> >>, step, g, n)
    BY <1>1, <1>2, <1>3, ThroughExists
  <2>2. g \in [0 .. n -> Splits(Q)] /\ g[0] = << <<>> >>
    BY <2>1 DEF Through
  <2>3. ASSUME NEW i \in 0 .. n, i # 0 PROVE g[i] = Put(g[i - 1], text[i])
    <3>1. i \in 1 .. n /\ i - 1 \in 0 .. n
      BY <1>1, <2>3
    <3>2. g[i] = step[<<g[i - 1], i>>] /\ g[i - 1] \in Splits(Q)
      BY <2>1, <2>2, <3>1 DEF Through
    <3> QED
      BY <3>1, <3>2 DEF step
  <2>4. g = [i \in 0 .. n |-> g[i]]
    BY <2>2
  <2>5. Is(g)
    BY <2>2, <2>3, <2>4
  <2> QED
    BY <2>5
<1>5. Is(f)
  BY <1>4
<1>6. split_source_commands(text) = IF Last(f[n]) = <<>> THEN Front(f[n]) ELSE f[n]
  BY DEF split_source_commands
<1> HIDE DEF f
<1> DEFINE T == {k \in 0 .. n : f[k] \in Splits(Q)}
<1>7. 0 \in T
  BY <1>1, <1>2, <1>5
<1>8. \A k \in 0 .. n : k # n /\ k \in T => k + 1 \in T
  <2> SUFFICES ASSUME NEW k \in 0 .. n, k # n, k \in T PROVE k + 1 \in T
    OBVIOUS
  <2>1. k + 1 \in 1 .. n /\ k + 1 \in 0 .. n /\ k + 1 # 0 /\ (k + 1) - 1 = k
    BY <1>1
  <2>2. f[k + 1] = Put(f[k], text[k + 1])
    BY <1>5, <2>1
  <2> QED
    BY <1>1, <2>1, <2>2, PutSplits
<1>9. f[n] \in Splits(Q)
  <2> HIDE DEF T, n
  <2>1. 0 .. n \subseteq T
    BY <1>1, <1>7, <1>8, CountsUp
  <2> QED
    BY <1>1, <2>1 DEF T
<1> DEFINE cmds == f[n]
<1>10. cmds \in Seq(Seq(Q)) /\ cmds # <<>> /\ \A i \in 1 .. Len(cmds) - 1 : cmds[i] # <<>>
  BY <1>9 DEF Splits
<1> HIDE DEF cmds
<1>11. /\ Len(cmds) \in Nat \ {0} /\ Last(cmds) = cmds[Len(cmds)]
       /\ Front(cmds) \in Seq(Seq(Q)) /\ Len(Front(cmds)) = Len(cmds) - 1
       /\ \A i \in 1 .. Len(cmds) - 1 : Front(cmds)[i] = cmds[i]
  BY <1>10, LastOf DEF Last
<1>12. CASE Last(cmds) = <<>>
  <2>1. \A i \in 1 .. Len(Front(cmds)) : Front(cmds)[i] \in CommandsOf(Q)
    BY <1>10, <1>11, ElementOfSeq DEF CommandsOf
  <2> QED
    BY <1>6, <1>11, <1>12, <2>1, IsSeqOf DEF cmds
<1>13. CASE Last(cmds) # <<>>
  <2>1. \A i \in 1 .. Len(cmds) : cmds[i] \in CommandsOf(Q)
    BY <1>10, <1>11, <1>13, ElementOfSeq DEF CommandsOf
  <2> QED
    BY <1>6, <1>10, <1>13, <2>1, IsSeqOf DEF cmds
<1> QED
  BY <1>12, <1>13

\* What replacing the stack operators has so far.
Replaced == [ok : BOOLEAN, stack : Seq(Nat), text : Seq(Queued)]

LEMMA SubstituteReplaces ==
  ASSUME unique \in Nat, NEW acc \in Replaced, NEW token \in Queued
  PROVE  Substitute(acc, token) \in Replaced
<1> DEFINE size == Len(acc.stack)
           deep == -token.at
<1>1. acc.ok \in BOOLEAN /\ acc.stack \in Seq(Nat) /\ acc.text \in Seq(Queued)
  BY DEF Replaced
<1>2. size \in Nat /\ \A i \in 1 .. size : acc.stack[i] \in Nat
  BY <1>1, LenProperties, ElementOfSeq
<1>3. Append(acc.text, token) \in Seq(Queued)
  BY <1>1, AppendProperties
<1>4. CASE ~ acc.ok
  BY <1>4 DEF Substitute
<1>5. CASE acc.ok /\ token.t = "%S"
  <2>1. Append(acc.stack, unique) \in Seq(Nat)
    BY <1>1, AppendProperties
  <2> QED
    BY <1>5, <2>1 DEF Substitute, Replaced
<1>6. CASE acc.ok /\ token.t = "%P"
  <2>1. size # 0 => Front(acc.stack) \in Seq(Nat)
    <3>1. size # 0 => acc.stack # <<>>
      BY EmptySeq
    <3> QED
      BY <1>1, <3>1, LastOf
  <2> QED
    BY <1>6, <2>1 DEF Substitute, Replaced
<1>7. CASE acc.ok /\ token.t \notin {"%S", "%P"} /\ token.at \in {V, W}
  <2>1. CASE size < deep
    BY <1>7, <2>1 DEF Substitute, Replaced
  <2>2. CASE ~ (size < deep)
    <3>1. deep \in 1 .. 2
      BY <1>7 DEF V, W
    <3> HIDE DEF size, deep
    <3>2. size + 1 - deep \in 1 .. size
      BY <1>2, <2>2, <3>1
    <3>3. acc.stack[size + 1 - deep] \in Nat
      BY <1>2, <3>2 DEF size
    <3> DEFINE tagged == [token EXCEPT !.at = acc.stack[size + 1 - deep]]
    <3>4. tagged \in Queued
      BY <3>3, Retagged
    <3> HIDE DEF tagged
    <3>5. Append(acc.text, tagged) \in Seq(Queued)
      BY <1>1, <3>4, AppendProperties
    <3>6. Substitute(acc, token) = [acc EXCEPT !.text = Append(acc.text, tagged)]
      BY <1>7, <2>2 DEF Substitute, tagged, size, deep
    <3> QED
      BY <3>5, <3>6 DEF Replaced
  <2> QED
    BY <2>1, <2>2
<1>8. CASE acc.ok /\ token.t \notin {"%S", "%P"} /\ token.at \notin {V, W}
  <2>1. Substitute(acc, token) = [acc EXCEPT !.text = Append(@, token)]
    BY <1>8 DEF Substitute
  <2> QED
    BY <1>3, <2>1 DEF Replaced
<1> QED
  BY <1>4, <1>5, <1>6, <1>7, <1>8

\* A command's operators are replaced.
LEMMA ReplacedTyped ==
  ASSUME unique \in Nat, MacroStack \in Seq(Nat), NEW text \in Seq(Queued)
  PROVE  substitute_macro_stack_opts(text) \in Replaced
<1> DEFINE n == Len(text)
           first == [ok |-> TRUE, stack |-> MacroStack, text |-> <<>>]
           Is(f) == f = [i \in 0 .. n |-> IF i = 0 THEN first ELSE Substitute(f[i - 1], text[i])]
           f == CHOOSE f : Is(f)
           step == [p \in Replaced \X (1 .. n) |-> Substitute(p[1], text[p[2]])]
<1>1. n \in Nat /\ \A i \in 1 .. n : text[i] \in Queued
  BY LenProperties, ElementOfSeq
<1>2. first \in Replaced
  <2>1. <<>> \in Seq(Queued)
    BY EmptySeq
  <2> QED
    BY <2>1 DEF Replaced
<1>3. step \in [Replaced \X (1 .. n) -> Replaced]
  BY <1>1, SubstituteReplaces
<1> HIDE DEF first
<1>4. \E g : Is(g)
  <2> HIDE DEF step
  <2>1. PICK g : Through(Replaced, first, step, g, n)
    BY <1>1, <1>2, <1>3, ThroughExists
  <2>2. g \in [0 .. n -> Replaced] /\ g[0] = first
    BY <2>1 DEF Through
  <2>3. ASSUME NEW i \in 0 .. n, i # 0 PROVE g[i] = Substitute(g[i - 1], text[i])
    <3>1. i \in 1 .. n /\ i - 1 \in 0 .. n
      BY <1>1, <2>3
    <3>2. g[i] = step[<<g[i - 1], i>>] /\ g[i - 1] \in Replaced
      BY <2>1, <2>2, <3>1 DEF Through
    <3> QED
      BY <3>1, <3>2 DEF step
  <2>4. g = [i \in 0 .. n |-> g[i]]
    BY <2>2
  <2>5. Is(g)
    BY <2>2, <2>3, <2>4
  <2> QED
    BY <2>5
<1>5. Is(f)
  BY <1>4
<1>6. substitute_macro_stack_opts(text) = f[n]
  BY DEF substitute_macro_stack_opts, first
<1> HIDE DEF f
<1> DEFINE T == {k \in 0 .. n : f[k] \in Replaced}
<1>7. 0 \in T
  BY <1>1, <1>2, <1>5
<1>8. \A k \in 0 .. n : k # n /\ k \in T => k + 1 \in T
  <2> SUFFICES ASSUME NEW k \in 0 .. n, k # n, k \in T PROVE k + 1 \in T
    OBVIOUS
  <2>1. k + 1 \in 1 .. n /\ k + 1 \in 0 .. n /\ k + 1 # 0 /\ (k + 1) - 1 = k
    BY <1>1
  <2>2. f[k + 1] = Substitute(f[k], text[k + 1])
    BY <1>5, <2>1
  <2> QED
    BY <1>1, <2>1, <2>2, SubstituteReplaces
<1>9. f[n] \in Replaced
  <2> HIDE DEF T, n
  <2>1. 0 .. n \subseteq T
    BY <1>1, <1>7, <1>8, CountsUp
  <2> QED
    BY <1>1, <2>1 DEF T
<1> QED
  BY <1>6, <1>9

\* A macro's text goes before what follows its call.
LEMMA ExpandedTyped ==
  ASSUME unique \in Nat, NEW macro \in DOMAIN Macros, NEW rest \in Seq(Queued)
  PROVE  expand_macro_invocation(macro, rest) \in Seq(Queued)
<1> DEFINE body == Macros[macro]
           at(i) == IF body[i].at = Zero THEN [body[i] EXCEPT !.at = unique + 1] ELSE body[i]
           text == [i \in DOMAIN body |-> at(i)]
<1>1. body \in Seq(Tokens) /\ \A i \in DOMAIN body : body[i].t \notin {".", ".ORG"}
  BY AssemblerAssumption DEF Texts, Moves
<1>2. Len(body) \in Nat /\ DOMAIN body = 1 .. Len(body)
  BY <1>1, LenProperties
<1>3. \A i \in 1 .. Len(body) : body[i] \in Queued
  BY <1>1, <1>2, ElementOfSeq DEF Queued
<1>4. \A i \in 1 .. Len(body) : at(i) \in Queued
  <2> SUFFICES ASSUME NEW i \in 1 .. Len(body) PROVE at(i) \in Queued
    OBVIOUS
  <2>1. body[i] \in Queued
    BY <1>3
  <2>2. unique + 1 \in Int
    OBVIOUS
  <2>3. [body[i] EXCEPT !.at = unique + 1] \in Queued
    BY <2>1, <2>2, Retagged
  <2> QED
    BY <2>1, <2>3
<1>5. expand_macro_invocation(macro, rest) = text \o rest
  BY DEF expand_macro_invocation
<1> HIDE DEF at, body
<1>6. text \in Seq(Queued)
  BY <1>2, <1>4, IsASeq
<1> QED
  BY <1>5, <1>6, ConcatProperties

-----------------------------------------------------------------------------
(***************************************************************************)
(* What the loop does to the files that are open.                          *)
(***************************************************************************)
LEMMA TopOf ==
  ASSUME NEW frames, NEW cmds, Opened(frames, cmds)
  PROVE  /\ Len(frames) \in DOMAIN frames /\ Len(frames) \in Nat \ {0}
         /\ DOMAIN frames = 1 .. Len(frames)
         /\ Last(frames) = frames[Len(frames)] /\ Last(frames) \in Frames(cmds) /\ Scoped(Last(frames))
BY LastOf, LenProperties DEF Opened, Last

\* The command at the front.
LEMMA CmdOf ==
  ASSUME QueueInv, top.cmdq # <<>>
  PROVE  /\ cmd \in Commands /\ cmd \in Seq(Queued) /\ key \in Queued
         /\ Tail(cmd) \in Seq(Queued) /\ Tail(top.cmdq) \in Seq(Commands)
<1>1. top.cmdq \in Seq(Commands)
  BY TopOf DEF QueueInv, top, Frames
<1>2. cmd \in Commands /\ Tail(top.cmdq) \in Seq(Commands)
  BY <1>1, HeadTailProperties DEF cmd
<1>3. cmd \in Seq(Queued) /\ cmd # <<>>
  BY <1>2 DEF Commands, CommandsOf
<1>4. Tail(cmd) \in Seq(Queued) /\ Len(cmd) \in Nat \ {0}
  BY <1>3, HeadTailProperties, EmptySeq
<1>5. 1 \in 1 .. Len(cmd)
  BY <1>4
<1>6. key \in Queued
  BY <1>3, <1>5, ElementOfSeq DEF key
<1> QED
  BY <1>2, <1>3, <1>4, <1>6

\* Another queue in the innermost file.
LEMMA NewTop ==
  ASSUME NEW frames, NEW cmds, Opened(frames, cmds), NEW q \in Seq(cmds)
  PROVE  Opened([frames EXCEPT ![Len(frames)].cmdq = q], cmds)
<1> DEFINE frame == [frames[Len(frames)] EXCEPT !.cmdq = q]
           new == [frames EXCEPT ![Len(frames)] = frame]
<1>1. /\ frames \in Seq(Frames(cmds)) /\ \A i \in DOMAIN frames : Scoped(frames[i])
      /\ Len(frames) \in 1 .. Len(frames) /\ DOMAIN frames = 1 .. Len(frames)
      /\ frames[Len(frames)] \in Frames(cmds) /\ Scoped(frames[Len(frames)])
  BY TopOf DEF Opened
<1>2. frame \in Frames(cmds) /\ Scoped(frame)
  BY <1>1 DEF Frames, Scoped
<1> HIDE DEF frame
<1>3. /\ new \in Seq(Frames(cmds)) /\ Len(new) = Len(frames)
      /\ \A j \in 1 .. Len(frames) : new[j] = IF j = Len(frames) THEN frame ELSE frames[j]
  BY <1>1, <1>2, ExceptSeq
<1>4. [frames EXCEPT ![Len(frames)].cmdq = q] = new
  BY DEF frame
<1> HIDE DEF new
<1>5. DOMAIN new = 1 .. Len(frames) /\ new # <<>>
  <2>1. DOMAIN new = 1 .. Len(new)
    BY <1>3, LenProperties
  <2>2. Len(new) \in DOMAIN new
    BY <1>1, <1>3, <2>1
  <2>3. new # <<>>
    BY <2>2
  <2> QED
    BY <1>3, <2>1, <2>3
<1> QED
  BY <1>1, <1>2, <1>3, <1>4, <1>5 DEF Opened

LEMMA Enqueued ==
  ASSUME QueueInv, top.cmdq # <<>>, NEW text \in Seq(Queued), enqueue_front(text)
  PROVE  Opened(open', Commands)
<1> DEFINE q == split_source_commands(text) \o Tail(open[Len(open)].cmdq)
<1>1. Opened(open, Commands) /\ top = open[Len(open)]
  BY TopOf DEF QueueInv, top
<1>2. q \in Seq(Commands)
  BY <1>1, CmdOf, SplitTyped, ConcatProperties DEF Commands
<1>3. open' = [open EXCEPT ![Len(open)].cmdq = q]
  BY DEF enqueue_front
<1> HIDE DEF q
<1> QED
  BY <1>1, <1>2, <1>3, NewTop

LEMMA QueueStays ==
  ASSUME QueueInv, Opened(open', Commands), unique' \in Nat, MacroStack' \in Seq(Nat), src' = src
  PROVE  QueueInv'
<1>1. Queued' = Queued
  BY DEF Queued, Moved
<1>2. Commands' = Commands
  BY <1>1 DEF Commands
<1> QED
  BY <1>2 DEF QueueInv, Opened, Frames, Files, Scoped

LEMMA Expanded ==
  ASSUME QueueInv, top.cmdq # <<>>, NEW text \in Commands, text[1].t = "@", Expands(text)
  PROVE  Opened(open', Commands) /\ unique' \in Nat
<1>1. text \in Seq(Queued) /\ text # <<>>
  BY DEF Commands, CommandsOf
<1>2. Tail(text) \in Seq(Queued) /\ 1 \in 1 .. Len(text)
  BY <1>1, HeadTailProperties, EmptySeq
<1>3. text[1] \in Queued
  BY <1>1, <1>2, ElementOfSeq
<1>4. text[1].text \in DOMAIN Macros
  BY <1>3 DEF Queued, Tokens, Plain
<1>5. expand_macro_invocation(text[1].text, Tail(text)) \in Seq(Queued)
  BY <1>2, <1>4, ExpandedTyped DEF QueueInv
<1> QED
  BY <1>5, Enqueued DEF Expands, QueueInv

LEMMA SkipQueue ==
  ASSUME QueueInv, Skip
  PROVE  QueueInv'
<1>1. /\ top.cmdq # <<>> /\ MacroStack' = MacroStack /\ src' = src
      /\ MacroStack \in Seq(Nat) /\ unique \in Nat
  BY DEF Skip, Working, QueueInv
<1>2. /\ cmd \in Commands /\ Tail(cmd) \in Seq(Queued) /\ <<>> \in Seq(Queued)
  BY <1>1, CmdOf, EmptySeq
<1>3. Opened(open', Commands) /\ unique' \in Nat
  <2>1. CASE key.t = "@"
    BY <1>1, <1>2, <2>1, Expanded DEF Skip, key
  <2>2. CASE key.t # "@"
    <3>1. unique' = unique /\ \E text \in Seq(Queued) : enqueue_front(text)
      BY <1>2, <2>2 DEF Skip, handle_skipped_label
    <3> QED
      BY <1>1, <3>1, Enqueued
  <2> QED
    BY <2>1, <2>2
<1> QED
  BY <1>1, <1>3, QueueStays

LEMMA BlocksQueue ==
  ASSUME QueueInv, EndBlock \/ Condition
  PROVE  QueueInv'
<1>1. /\ top.cmdq # <<>> /\ MacroStack' = MacroStack /\ src' = src /\ unique' = unique
      /\ MacroStack \in Seq(Nat) /\ unique \in Nat
  BY DEF EndBlock, Condition, Working, QueueInv, Fails, stacks
<1>2. CASE open' = open
  BY <1>1, <1>2, QueueStays DEF QueueInv
<1>3. CASE enqueue_front(Tail(cmd))
  BY <1>1, <1>3, CmdOf, Enqueued, QueueStays
<1> QED
  BY <1>2, <1>3 DEF EndBlock, Condition, Fails

\* What is left of a command after the stack operators.
LEMMA DoneOf ==
  ASSUME QueueInv, top.cmdq # <<>>
  PROVE  /\ done.stack \in Seq(Nat) /\ done.text \in Seq(Queued)
         /\ done.text # <<>> => /\ done.text \in Commands /\ done.text[1] \in Queued
                                /\ Tail(done.text) \in Seq(Queued)
<1>1. done \in Replaced
  BY CmdOf, ReplacedTyped DEF done, QueueInv
<1>2. done.stack \in Seq(Nat) /\ done.text \in Seq(Queued)
  BY <1>1 DEF Replaced
<1>3. ASSUME done.text # <<>>
      PROVE  done.text[1] \in Queued /\ Tail(done.text) \in Seq(Queued)
  <2>1. 1 \in 1 .. Len(done.text)
    BY <1>2, <1>3, EmptySeq
  <2> QED
    BY <1>2, <1>3, <2>1, ElementOfSeq, HeadTailProperties
<1> QED
  BY <1>2, <1>3 DEF Commands, CommandsOf

LEMMA LoopExecutesQueue ==
  ASSUME QueueInv, LoopExecutes
  PROVE  QueueInv'
<1>1. CASE SubstitutionFails
  BY <1>1, QueueStays DEF SubstitutionFails, Fails, QueueInv, stacks
<1>2. CASE NothingToExecute \/ ExpandsMacro
  <2>1. top.cmdq # <<>> /\ MacroStack' = done.stack /\ src' = src /\ unique \in Nat
    BY <1>2 DEF NothingToExecute, ExpandsMacro, Substitutes, Working, QueueInv
  <2>2. Opened(open', Commands) /\ unique' \in Nat
    <3>1. CASE NothingToExecute
      BY <2>1, <3>1, Enqueued, EmptySeq DEF NothingToExecute
    <3>2. CASE ExpandsMacro
      BY <2>1, <3>2, DoneOf, Expanded DEF ExpandsMacro
    <3> QED
      BY <1>2, <3>1, <3>2
  <2> QED
    BY <2>1, <2>2, DoneOf, QueueStays
<1> QED
  BY <1>1, <1>2 DEF LoopExecutes

LEMMA TakesCommandQueue ==
  ASSUME QueueInv, TakesCommand
  PROVE  QueueInv' /\ done.text[1] \in Queued
<1>1. /\ top.cmdq # <<>> /\ MacroStack' = done.stack /\ src' = src /\ unique' = unique
      /\ unique \in Nat /\ done.text # <<>> /\ enqueue_front(Tail(done.text))
  BY DEF TakesCommand, Substitutes, Working, QueueInv
<1> QED
  BY <1>1, DoneOf, Enqueued, QueueStays

LEMMA LoadsFileQueue ==
  ASSUME QueueInv, LoadsFile
  PROVE  QueueInv'
<1> DEFINE text == done.text
           token == text[1]
           rest == split_source_commands(Tail(text)) \o Tail(top.cmdq)
           old == [open EXCEPT ![Len(open)].cmdq = rest]
           new == [file |-> token.text, cmdq |-> <<>>,
                   lorg |-> IF token.t = "L" THEN "local" ELSE "global",
                   local |-> IF token.t = "L" THEN token.text ELSE top.local]
<1>1. /\ top.cmdq # <<>> /\ MacroStack' = done.stack /\ src' = src /\ unique' = unique
      /\ unique \in Nat /\ text # <<>> /\ token.t \in {"L", "I"}
      /\ Opened(open, Commands)
  BY DEF LoadsFile, Substitutes, Working, QueueInv
<1>2. open' = Append(old, new)
  BY DEF LoadsFile, Loads
<1>3. /\ token \in Queued /\ Tail(text) \in Seq(Queued) /\ Tail(top.cmdq) \in Seq(Commands)
      /\ done.stack \in Seq(Nat)
  BY <1>1, DoneOf, CmdOf
<1>4. rest \in Seq(Commands)
  BY <1>3, SplitTyped, ConcatProperties DEF Commands
<1> HIDE DEF rest
<1>5. Opened(old, Commands)
  BY <1>1, <1>4, NewTop
<1>6. (token.t = "L" => token.text \in Libs) /\ (token.t = "I" => token.text \in Incs)
  BY <1>3 DEF Queued, Tokens, Plain
<1>7. top.local \in {Main} \cup Libs
  BY <1>1, TopOf DEF top, Frames
<1>8. new \in Frames(Commands) /\ Scoped(new)
  <2>1. <<>> \in Seq(Commands)
    BY EmptySeq
  <2> HIDE DEF token
  <2> QED
    BY <1>1, <1>6, <1>7, <2>1, AssemblerAssumption DEF Frames, Files, Scoped
<1> HIDE DEF old, new
<1>9. /\ open' \in Seq(Frames(Commands)) /\ open' # <<>> /\ Len(open') = Len(old) + 1
      /\ \A i \in 1 .. Len(old) : open'[i] = old[i]
      /\ open'[Len(old) + 1] = new
  BY <1>2, <1>5, <1>8, AppendProperties DEF Opened
<1>10. DOMAIN open' = 1 .. Len(old) + 1 /\ DOMAIN old = 1 .. Len(old) /\ Len(old) \in Nat
  BY <1>5, <1>9, LenProperties DEF Opened
<1>11. \A i \in DOMAIN open' : Scoped(open'[i])
  BY <1>5, <1>8, <1>9, <1>10 DEF Opened
<1> QED
  BY <1>1, <1>3, <1>9, <1>11, QueueStays DEF Opened

\* The end of a file that another one loads.
LEMMA PopQueue ==
  ASSUME QueueInv, Len(open) # 1, open' = Front(open), UNCHANGED <<stacks, src>>
  PROVE  QueueInv'
<1>1. /\ open \in Seq(Frames(Commands)) /\ open # <<>> /\ \A i \in DOMAIN open : Scoped(open[i])
      /\ Len(open) \in Nat \ {0} /\ DOMAIN open = 1 .. Len(open)
  BY TopOf DEF QueueInv, Opened
<1>2. /\ open' \in Seq(Frames(Commands)) /\ Len(open') = Len(open) - 1
      /\ \A i \in 1 .. Len(open) - 1 : open'[i] = open[i]
  BY <1>1, LastOf
<1>3. DOMAIN open' = 1 .. Len(open) - 1
  BY <1>2, LenProperties
<1>4. open' # <<>>
  <2>1. Len(open') \in DOMAIN open'
    BY <1>1, <1>2, <1>3
  <2> QED
    BY <2>1
<1>5. \A i \in DOMAIN open' : Scoped(open'[i])
  BY <1>1, <1>2, <1>3
<1> QED
  BY <1>2, <1>4, <1>5, QueueStays DEF Opened, QueueInv, stacks

\* The lines that were read stay, and so does what they say of the code's place.
LEMMA StaysMoved ==
  ASSUME NEW S, src \in Seq(S), NEW line, src' = Append(src, line), NEW T, src' \in Seq(T)
  PROVE  /\ Moved => Moved'
         /\ Moves(line.line) => Moved'
<1>1. /\ Len(src) \in Nat /\ DOMAIN src = 1 .. Len(src)
      /\ Len(src') = Len(src) + 1 /\ DOMAIN src' = 1 .. Len(src')
      /\ \A i \in 1 .. Len(src) : src'[i] = src[i]
      /\ src'[Len(src) + 1] = line
  BY LenProperties
<1>2. DOMAIN src \subseteq DOMAIN src' /\ Len(src) + 1 \in DOMAIN src'
  BY <1>1
<1> QED
  BY <1>1, <1>2 DEF Moved

LEMMA ReadQueue ==
  ASSUME QueueInv, address \in Nat, NEW texts, ReadsOneOf(texts)
  PROVE  QueueInv' /\ (Moved => Moved')
<1> DEFINE LinesRead == [file : Files, line : Texts, at : Nat, counts : BOOLEAN]
<1>1. PICK line \in Texts :
        /\ open' = [open EXCEPT ![Len(open)].cmdq = split_source_commands(line)]
        /\ src' = Append(src, [file |-> top.file, line |-> line, at |-> address,
                               counts |-> is_executing])
  BY DEF ReadsOneOf
<1> DEFINE new == [file |-> top.file, line |-> line, at |-> address, counts |-> is_executing]
<1>2. new \in LinesRead
  <2>1. top.file \in Files
    BY TopOf DEF QueueInv, top, Frames
  <2>2. is_executing \in BOOLEAN
    BY DEF is_executing
  <2> QED
    BY <2>1, <2>2
<1>3. src \in Seq(LinesRead) /\ src' = Append(src, new)
  BY <1>1 DEF QueueInv
<1> HIDE DEF new
<1>4. src' \in Seq(LinesRead)
  BY <1>2, <1>3, AppendProperties
<1> HIDE DEF LinesRead
<1>5. (Moved => Moved') /\ (Moves(new.line) => Moved') /\ new.line = line
  BY <1>3, <1>4, StaysMoved DEF new
<1>6. Queued \subseteq Queued'
  BY <1>5 DEF Queued
<1>7. line \in Seq(Queued')
  <2>1. line \in Seq(Tokens) /\ Len(line) \in Nat /\ DOMAIN line = 1 .. Len(line)
    BY LenProperties DEF Texts
  <2>2. \A i \in 1 .. Len(line) : line[i] \in Tokens
    BY <2>1, ElementOfSeq
  <2>3. \A i \in 1 .. Len(line) : line[i] \in Queued'
    BY <1>5, <2>1, <2>2 DEF Queued, Moves
  <2> QED
    BY <2>1, <2>3, IsSeqOf
<1>8. split_source_commands(line) \in Seq(Commands')
  BY <1>7, SplitTyped DEF Commands
<1>9. Opened(open, Commands')
  <2>1. Commands \subseteq Commands'
    BY <1>6, SeqMonotonic DEF Commands, CommandsOf
  <2>2. Frames(Commands) \subseteq Frames(Commands')
    BY <2>1, SeqMonotonic DEF Frames
  <2> QED
    BY <2>2, SeqMonotonic DEF QueueInv, Opened
<1>10. Opened(open', Commands')
  BY <1>1, <1>8, <1>9, NewTop
<1> QED
  BY <1>4, <1>5, <1>10 DEF QueueInv, LinesRead, Opened, Frames, Files, Scoped, ReadsOneOf, stacks

-----------------------------------------------------------------------------
(***************************************************************************)
(* Banks and offsets, and the words that labels become.                    *)
(***************************************************************************)
LEMMA Offsets ==
  ASSUME NEW a \in Nat
  PROVE  /\ bank_of(a) \in Nat /\ offset_of(a) \in 0 .. AddressSize - 1 /\ offset_of(a) \in Nat
         /\ a = bank_of(a) * AddressSize + offset_of(a)
<1> DEFINE g == AddressSize
<1>1. g \in Nat \ {0}
  BY AssemblerAssumption
<1> HIDE DEF g
<1>2. a \div g \in Nat /\ a % g \in 0 .. g - 1 /\ a = (a \div g) * g + (a % g)
  BY <1>1, SMT
<1> QED
  BY <1>1, <1>2 DEF bank_of, offset_of, g

LEMMA OfPhysical ==
  ASSUME NEW b \in Nat, NEW x \in 0 .. AddressSize - 1
  PROVE  /\ physical(b, x) \in Nat
         /\ bank_of(physical(b, x)) = b /\ offset_of(physical(b, x)) = x
<1> DEFINE g == AddressSize
           a == b * g + x
<1>1. g \in Nat \ {0} /\ x \in 0 .. g - 1
  BY AssemblerAssumption
<1> HIDE DEF g
<1>2. a \in Nat /\ b * g <= a /\ a < b * g + g
  BY <1>1, SMT
<1>3. a \div g = b
  BY <1>1, <1>2, SMT
<1>4. a % g \in 0 .. g - 1 /\ a = (a \div g) * g + (a % g)
  BY <1>1, <1>2, SMT
<1>5. a % g = x
  BY <1>1, <1>2, <1>3, <1>4, SMT
<1> QED
  BY <1>2, <1>3, <1>5 DEF bank_of, offset_of, physical, g

\* Addresses of one bank are ordered as their offsets.
LEMMA SameBank ==
  ASSUME NEW a \in Nat, NEW c \in Nat, bank_of(a) = bank_of(c)
  PROVE  a < c <=> offset_of(a) < offset_of(c)
<1> DEFINE k == bank_of(a) * AddressSize
<1>1. AddressSize \in Nat /\ bank_of(a) \in Nat
  BY AssemblerAssumption, Offsets
<1>2. k \in Nat
  BY <1>1, SMT
<1>3. a = k + offset_of(a) /\ c = k + offset_of(c)
  BY Offsets
<1> HIDE DEF k
<1> QED
  BY <1>2, <1>3, Offsets

LEMMA WordOf ==
  ASSUME NEW v \in Nat
  PROVE  /\ Str2Word(v) \in 0 .. AddressSize - 1 /\ Str2Word(v) \in Nat
         /\ Str2Word(Str2Word(v)) = Str2Word(v) /\ Str2Word(v) = offset_of(v)
<1> DEFINE g == AddressSize
<1>1. g \in Nat \ {0}
  BY AssemblerAssumption
<1> HIDE DEF g
<1>2. v % g \in 0 .. g - 1 /\ v % g \in Nat
  BY <1>1, SMT
<1>3. \A x \in 0 .. g - 1 : x % g = x
  BY <1>1, SMT
<1> QED
  BY <1>2, <1>3 DEF Str2Word, offset_of, g

LEMMA BiggerOf ==
  ASSUME NEW a \in Nat, NEW b \in Nat
  PROVE  Bigger(a, b) \in Nat /\ a <= Bigger(a, b) /\ b <= Bigger(a, b)
BY DEF Bigger

-----------------------------------------------------------------------------
(***************************************************************************)
(* The tables of labels say of a name only what a definition of it does,   *)
(* whatever the scopes; and each definition is found by its key.           *)
(***************************************************************************)
PlaceTyped ==
  /\ address \in Nat /\ dataaddress \in Nat /\ highaddress \in Nat /\ highwater \in Nat
  /\ Entry \in Nat /\ DataSegment \in Nat \cup {NoSegment}

Says(v, k) == v \in Nat /\ \E d \in defs : d.key = k /\ Str2Word(v) = Str2Word(d.value)

Keyed(d) ==
  /\ d.value \in Nat
  /\ d.key = <<d.name, d.key[2]>> /\ d.key \in DOMAIN FileLabels
  /\ d.key[2] = NoScope \/ (d.key[2] = d.file /\ d.file \in Libs /\ d.name[2] = 0)

DefsInv ==
  /\ IsFiniteSet(defs)
  /\ \A d \in defs : Keyed(d)
  /\ Ends \subseteq GlobalDeclarations

Values == [value : Nat, start : Nat, end : Int]

TablesInv ==
  /\ \A k \in DOMAIN FileLabels : Says(FileLabels[k], k)
  /\ \A n \in DOMAIN GlobeLabels : Says(GlobeLabels[n], <<n, NoScope>>)
  /\ \A k \in DOMAIN LocVarHist :
       /\ LocVarHist[k] \in Seq(Values)
       /\ \A i \in DOMAIN LocVarHist[k] : Says(LocVarHist[k][i].value, k)

\* A name that has a value has that of a definition.
LEMMA DecodeSound ==
  ASSUME DefsInv, TablesInv, NEW name, NEW a, NEW v \in decode_token(name, a)
  PROVE  /\ v \in 0 .. AddressSize - 1
         /\ \E d \in defs : d.name = name /\ v = Str2Word(d.value)
<1> DEFINE plain == <<name, NoScope>>
           local == IsLocalVar(name)
           found == IF plain \in DOMAIN FileLabels THEN {FileLabels[plain]}
                    ELSE IF name \in DOMAIN GlobeLabels THEN {GlobeLabels[name]}
                    ELSE IF local \in DOMAIN FileLabels THEN {FileLabels[local]}
                    ELSE FindHistoricVal(local, a)
<1>1. PICK w \in found : v = Str2Word(w)
  BY DEF decode_token
<1>2. local[1] = name
  BY DEF IsLocalVar
<1>3. \E k : k[1] = name /\ Says(w, k)
  <2>1. CASE w \in FindHistoricVal(local, a)
    <3>1. PICK e : /\ e \in UNION {ToSet(LocVarHist[j]) : j \in {j \in DOMAIN LocVarHist :
                              j[1] = local[1] /\ local[2] = NoScope /\ j[2] # NoScope}}
                   /\ w = e.value
      BY <2>1 DEF FindHistoricVal
    <3>2. PICK j \in DOMAIN LocVarHist : j[1] = local[1] /\ e \in ToSet(LocVarHist[j])
      BY <3>1
    <3>3. PICK i \in DOMAIN LocVarHist[j] : e = LocVarHist[j][i]
      BY <3>2 DEF ToSet
    <3> QED
      BY <1>2, <3>1, <3>2, <3>3 DEF TablesInv
  <2>2. CASE w \notin FindHistoricVal(local, a)
    <3> HIDE DEF local
    <3>1. plain[1] = name
      OBVIOUS
    <3> QED
      BY <1>1, <1>2, <2>2, <3>1 DEF TablesInv
  <2> QED
    BY <2>1, <2>2
<1>4. PICK k : k[1] = name /\ Says(w, k)
  BY <1>3
<1>5. PICK d \in defs : w \in Nat /\ d.key = k /\ Str2Word(w) = Str2Word(d.value)
  BY <1>4 DEF Says
<1>6. d.name = name
  <2>1. d.key = <<d.name, d.key[2]>>
    BY <1>5 DEF DefsInv, Keyed
  <2> QED
    BY <1>4, <1>5, <2>1
<1> QED
  BY <1>1, <1>5, <1>6, WordOf

\* A name without a value has only definitions that are local to a file.
LEMMA DecodeEmpty ==
  ASSUME DefsInv, NEW name, NEW a, decode_token(name, a) = {}, NEW d \in defs, d.name = name
  PROVE  d.key[2] # NoScope
<1> SUFFICES ASSUME d.key[2] = NoScope PROVE FALSE
  OBVIOUS
<1>1. <<name, NoScope>> \in DOMAIN FileLabels
  BY DEF DefsInv, Keyed
<1>2. Str2Word(FileLabels[<<name, NoScope>>]) \in decode_token(name, a)
  BY <1>1 DEF decode_token
<1> QED
  BY <1>2

\* The value of an operand.
LEMMA OperandOf ==
  ASSUME DefsInv, TablesInv, NEW token \in Queued, NEW v \in FirstPassVal(token)
  PROVE  v \in Nat
<1>1. CASE "a" \in DOMAIN token
  <2>1. v = token.a
    BY <1>1 DEF FirstPassVal
  <2>2. token.a \in Nat
    BY <1>1 DEF Queued, Tokens
  <2> QED
    BY <2>1, <2>2
<1>2. CASE "a" \notin DOMAIN token
  <2>1. v \in decode_token(<<token.of, 0>>, address)
    BY <1>2 DEF FirstPassVal
  <2> QED
    BY <2>1, DecodeSound
<1> QED
  BY <1>1, <1>2

\* Whether a name is local to a file that L loads.
LEMMA ScopeIs ==
  ASSUME QueueInv, NEW name
  PROVE  IsLocalVar(name) =
           <<name, IF name[2] # 0 \/ name \in GlobalDeclarations \/ top.file \notin Libs
                     THEN NoScope ELSE top.file>>
<1>1. Scoped(top) /\ top \in Frames(Commands)
  BY TopOf DEF QueueInv, top
<1>2. top.lorg \in {"global", "local"}
  BY <1>1 DEF Frames
<1>3. /\ top.lorg = "local" => top.file \in Libs /\ top.local = top.file
      /\ top.lorg = "global" => top.file \notin Libs
  BY <1>1, <1>2 DEF Scoped
<1> QED
  BY <1>2, <1>3 DEF IsLocalVar

\* A history that says what another does, and v.
Prolongs(h, old, v) ==
  h \in Seq(Values) /\ \A i \in DOMAIN h : h[i].value = v \/ \E j \in DOMAIN old : h[i].value = old[j].value

\* Values that got another end, and one more.
LEMMA Prolonged ==
  ASSUME NEW old \in Seq(Values), NEW closed, NEW new \in Values,
         closed = [i \in DOMAIN old |-> closed[i]],
         \A i \in DOMAIN old : closed[i] \in Values /\ closed[i].value = old[i].value
  PROVE  Prolongs(Append(closed, new), old, new.value)
<1>1. Len(old) \in Nat /\ DOMAIN old = 1 .. Len(old)
  BY LenProperties
<1>2. closed \in Seq(Values)
  <2>1. closed \in [1 .. Len(old) -> Values]
    BY <1>1
  <2> QED
    BY <1>1, <2>1, SeqDef
<1>3. /\ Append(closed, new) \in Seq(Values) /\ Len(Append(closed, new)) = Len(closed) + 1
      /\ \A i \in 1 .. Len(closed) : Append(closed, new)[i] = closed[i]
      /\ Append(closed, new)[Len(closed) + 1] = new
  BY <1>2, AppendProperties
<1>4. /\ DOMAIN closed = 1 .. Len(closed) /\ Len(closed) \in Nat /\ DOMAIN closed = DOMAIN old
      /\ DOMAIN Append(closed, new) = 1 .. Len(Append(closed, new))
  BY <1>2, <1>3, LenProperties
<1> DEFINE h == Append(closed, new)
<1> HIDE DEF h
<1>5. ASSUME NEW i \in DOMAIN h
      PROVE  h[i].value = new.value \/ \E j \in DOMAIN old : h[i].value = old[j].value
  <2>1. i \in 1 .. Len(closed) \/ i = Len(closed) + 1
    BY <1>3, <1>4 DEF h
  <2>2. CASE i \in 1 .. Len(closed)
    <3>1. h[i] = closed[i] /\ i \in DOMAIN old
      BY <1>3, <1>4, <2>2 DEF h
    <3> QED
      BY <3>1
  <2>3. CASE i = Len(closed) + 1
    BY <1>3, <2>3 DEF h
  <2> QED
    BY <2>1, <2>2, <2>3
<1> QED
  BY <1>3, <1>5 DEF Prolongs, h

\* The history of name k, which is empty when there is none.
HistoryOf(k) == IF k \in DOMAIN LocVarHist THEN LocVarHist[k] ELSE <<>>

LEMMA HistoryTyped ==
  ASSUME TablesInv, NEW k
  PROVE  HistoryOf(k) \in Seq(Values)
BY EmptySeq DEF TablesInv, HistoryOf

LEMMA UpdatesHistory ==
  ASSUME TablesInv, NEW k, NEW v \in Nat, NEW a \in Nat, UpdateVarHistory(k, v, a)
  PROVE  \E h : LocVarHist' = Set(LocVarHist, k, h) /\ Prolongs(h, HistoryOf(k), v)
<1> DEFINE old == HistoryOf(k)
           closed == [i \in DOMAIN old |->
                        IF i = Len(old) THEN [old[i] EXCEPT !.end = a - 1] ELSE old[i]]
           new == [value |-> v, start |-> a, end |-> Hole]
<1>1. old \in Seq(Values)
  BY HistoryTyped
<1>2. LocVarHist' = Set(LocVarHist, k, Append(closed, new))
  BY DEF UpdateVarHistory, HistoryOf
<1>3. new \in Values /\ new.value = v
  BY DEF Values, Hole
<1> HIDE DEF old
<1>4. \A i \in DOMAIN old : closed[i] \in Values /\ closed[i].value = old[i].value
  <2> SUFFICES ASSUME NEW i \in DOMAIN old
               PROVE  closed[i] \in Values /\ closed[i].value = old[i].value
    OBVIOUS
  <2>1. old[i] \in Values
    BY <1>1, LenProperties, ElementOfSeq
  <2> QED
    BY <2>1 DEF Values
<1>5. closed = [i \in DOMAIN old |-> closed[i]]
  OBVIOUS
<1> HIDE DEF closed, new
<1>6. Prolongs(Append(closed, new), old, new.value)
  BY <1>1, <1>3, <1>4, <1>5, Prolonged
<1> QED
  BY <1>2, <1>3, <1>6 DEF old

LEMMA UpdatesHistory24 ==
  ASSUME TablesInv, NEW k, NEW v \in Nat, NEW a \in Nat, UpdateVarHistory24(k, v, a)
  PROVE  \E h : LocVarHist' = Set(LocVarHist, k, h) /\ Prolongs(h, HistoryOf(k), v)
<1> DEFINE old == HistoryOf(k)
           bank == bank_of(a)
           last == physical(bank, AddressSize - 1)
           here == {i \in DOMAIN old : bank_of(old[i].start) = bank}
           closed == [i \in DOMAIN old |->
                        IF here # {} /\ i = Max(here) /\ old[i].end = last
                          THEN [old[i] EXCEPT !.end = a - 1] ELSE old[i]]
           new == [value |-> v, start |-> a, end |-> last]
<1>1. old \in Seq(Values)
  BY HistoryTyped
<1>2. LocVarHist' = Set(LocVarHist, k, Append(closed, new))
  BY DEF UpdateVarHistory24, HistoryOf, Get
<1>3. new \in Values /\ new.value = v
  <2>1. AddressSize - 1 \in 0 .. AddressSize - 1
    BY AssemblerAssumption
  <2>2. last \in Nat
    BY <2>1, Offsets, OfPhysical
  <2> HIDE DEF last
  <2> QED
    BY <2>2 DEF Values
<1> HIDE DEF old, here, last
<1>4. \A i \in DOMAIN old : closed[i] \in Values /\ closed[i].value = old[i].value
  <2> SUFFICES ASSUME NEW i \in DOMAIN old
               PROVE  closed[i] \in Values /\ closed[i].value = old[i].value
    OBVIOUS
  <2>1. old[i] \in Values
    BY <1>1, LenProperties, ElementOfSeq
  <2> QED
    BY <2>1 DEF Values
<1>5. closed = [i \in DOMAIN old |-> closed[i]]
  OBVIOUS
<1> HIDE DEF closed, new
<1>6. Prolongs(Append(closed, new), old, new.value)
  BY <1>1, <1>3, <1>4, <1>5, Prolonged
<1> QED
  BY <1>2, <1>3, <1>6 DEF old

\* A label is added: its name gets value v, which is that of definition d.
LEMMA LabelAdds ==
  ASSUME QueueInv, DefsInv, TablesInv, NEW name, NEW v \in Nat, NEW d, NEW h,
         d.name = name, d.file = top.file, d.key = IsLocalVar(name),
         d.value \in Nat, Str2Word(v) = Str2Word(d.value),
         defs' = defs \cup {d},
         FileLabels' = Set(FileLabels, IsLocalVar(name), v),
         \/ GlobeLabels' = GlobeLabels
         \/ name \in GlobalDeclarations /\ GlobeLabels' = Set(GlobeLabels, name, v),
         GlobalDeclarations' = GlobalDeclarations, banked' = banked,
         LocVarHist' = Set(LocVarHist, IsLocalVar(name), h),
         Prolongs(h, HistoryOf(IsLocalVar(name)), v)
  PROVE  DefsInv' /\ TablesInv'
<1>0. PICK k : k = IsLocalVar(name)
  OBVIOUS
<1>1. k = <<name, IF name[2] # 0 \/ name \in GlobalDeclarations \/ top.file \notin Libs
                    THEN NoScope ELSE top.file>>
  BY <1>0, ScopeIs
<1>2. d.key = k
  BY <1>0
<1>3. FileLabels' = Set(FileLabels, k, v) /\ LocVarHist' = Set(LocVarHist, k, h)
      /\ Prolongs(h, HistoryOf(k), v)
  BY <1>0
<1>4. DefsInv'
  <2>1. IsFiniteSet(defs')
    BY FS_AddElement DEF DefsInv
  <2>2. DOMAIN FileLabels' = DOMAIN FileLabels \cup {k}
    BY <1>3 DEF Set
  <2>3. \A e \in defs : Keyed(e)'
    BY <2>2 DEF DefsInv, Keyed
  <2>4. Keyed(d)'
    BY <1>1, <1>2, <2>2 DEF Keyed
  <2>5. Ends' = Ends
    BY DEF Ends, EndNames
  <2> QED
    BY <2>1, <2>3, <2>4, <2>5 DEF DefsInv
<1>5. \A w, j : Says(w, j) => Says(w, j)'
  BY DEF Says
<1>6. Says(v, k)'
  BY <1>2 DEF Says
<1>7. \A j \in DOMAIN FileLabels' : Says(FileLabels[j], j)'
  <2> SUFFICES ASSUME NEW j \in DOMAIN FileLabels' PROVE Says(FileLabels[j], j)'
    OBVIOUS
  <2>1. CASE j = k
    <3>1. FileLabels'[j] = v
      BY <1>3, <2>1 DEF Set
    <3> QED
      BY <1>6, <2>1, <3>1 DEF Says
  <2>2. CASE j # k
    <3>1. j \in DOMAIN FileLabels /\ FileLabels'[j] = FileLabels[j]
      BY <1>3, <2>2 DEF Set
    <3>2. Says(FileLabels[j], j)
      BY <3>1 DEF TablesInv
    <3>3. \A w : Says(w, j) => Says(w, j)'
      BY <1>5
    <3> QED
      BY <3>1, <3>2, <3>3 DEF Says
  <2> QED
    BY <2>1, <2>2
<1>8. \A n \in DOMAIN GlobeLabels' : Says(GlobeLabels[n], <<n, NoScope>>)'
  <2> SUFFICES ASSUME NEW n \in DOMAIN GlobeLabels' PROVE Says(GlobeLabels[n], <<n, NoScope>>)'
    OBVIOUS
  <2>1. CASE GlobeLabels' = GlobeLabels \/ n # name
    <3>1. n \in DOMAIN GlobeLabels /\ GlobeLabels'[n] = GlobeLabels[n]
      BY <2>1 DEF Set
    <3>2. Says(GlobeLabels[n], <<n, NoScope>>)
      BY <3>1 DEF TablesInv
    <3> QED
      BY <3>1, <3>2 DEF Says
  <2>2. CASE ~ (GlobeLabels' = GlobeLabels \/ n # name)
    <3>1. name \in GlobalDeclarations /\ GlobeLabels'[name] = v /\ n = name
      BY <2>2 DEF Set
    <3>2. k = <<n, NoScope>>
      BY <1>1, <3>1
    <3> QED
      BY <1>6, <3>1, <3>2 DEF Says
  <2> QED
    BY <2>1, <2>2
<1>9. \A j \in DOMAIN LocVarHist' :
        /\ LocVarHist'[j] \in Seq(Values)
        /\ \A i \in DOMAIN LocVarHist'[j] : Says(LocVarHist[j][i].value, j)'
  <2> SUFFICES ASSUME NEW j \in DOMAIN LocVarHist'
               PROVE  /\ LocVarHist'[j] \in Seq(Values)
                      /\ \A i \in DOMAIN LocVarHist'[j] : Says(LocVarHist[j][i].value, j)'
    OBVIOUS
  <2>1. CASE j = k
    <3>1. LocVarHist'[j] = h
      BY <1>3, <2>1 DEF Set
    <3>2. h \in Seq(Values)
      BY <1>3 DEF Prolongs
    <3>3. ASSUME NEW i \in DOMAIN h
          PROVE  h[i].value \in Nat /\ \E e \in defs' : e.key = k /\ Str2Word(h[i].value) = Str2Word(e.value)
      <4>1. CASE h[i].value = v
        BY <1>6, <4>1 DEF Says
      <4>2. CASE h[i].value # v
        <5>1. PICK m \in DOMAIN HistoryOf(k) : h[i].value = HistoryOf(k)[m].value
          BY <1>3, <3>3, <4>2 DEF Prolongs
        <5>2. k \in DOMAIN LocVarHist /\ HistoryOf(k) = LocVarHist[k]
          BY <5>1 DEF HistoryOf
        <5>3. Says(LocVarHist[k][m].value, k)
          BY <5>1, <5>2 DEF TablesInv
        <5> QED
          BY <5>1, <5>2, <5>3 DEF Says
      <4> QED
        BY <4>1, <4>2
    <3> QED
      BY <2>1, <3>1, <3>2, <3>3 DEF Says
  <2>2. CASE j # k
    <3>1. j \in DOMAIN LocVarHist /\ LocVarHist'[j] = LocVarHist[j]
      BY <1>3, <2>2 DEF Set
    <3>2. LocVarHist[j] \in Seq(Values) /\ \A i \in DOMAIN LocVarHist[j] : Says(LocVarHist[j][i].value, j)
      BY <3>1 DEF TablesInv
    <3> QED
      BY <3>1, <3>2 DEF Says
  <2> QED
    BY <2>1, <2>2
<1> QED
  BY <1>4, <1>7, <1>8, <1>9 DEF TablesInv

-----------------------------------------------------------------------------
(***************************************************************************)
(* A word that a reference alone is assembled to has the value of a        *)
(* definition, or it is among those to patch and every definition so far   *)
(* is local to a file.                                                     *)
(***************************************************************************)
ScopeOf(u) == IF u.name[2] # 0 \/ u.global \/ u.file \notin Libs THEN NoScope ELSE u.file

Refs == {[symbol |-> <<w.name, ScopeOf(w)>>, address |-> w.at] : w \in uses}

Explained(u) ==
  Lonely(u) =>
    \/ \E d \in defs : d.name = u.name /\ mem[u.at] = Str2Word(d.value)
    \/ /\ \E i \in DOMAIN FWORDLIST : FWORDLIST[i].address = u.at
       /\ \A d \in u.seen : d.key[2] # NoScope

Memories == UNION {[addresses -> Int] : addresses \in SUBSET Nat}

UsesInv ==
  /\ mem \in Memories /\ FWORDLIST \in Seq(Refs)
  /\ \A u \in uses :
       /\ u.at \in Nat /\ u.at \in DOMAIN mem
       /\ u.name \in Ends => u.global
       /\ Explained(u)

LEMMA SetMemory ==
  ASSUME NEW m \in Memories, NEW a \in Nat, NEW v \in Int
  PROVE  /\ Set(m, a, v) \in Memories /\ DOMAIN Set(m, a, v) = DOMAIN m \cup {a}
         /\ Set(m, a, v)[a] = v
         /\ \A x \in DOMAIN m : x # a => Set(m, a, v)[x] = m[x]
<1>1. PICK addresses \in SUBSET Nat : m \in [addresses -> Int]
  BY DEF Memories
<1>2. addresses \cup {a} \in SUBSET Nat
  BY <1>1
<1>3. Set(m, a, v) \in [addresses \cup {a} -> Int]
  BY <1>1 DEF Set
<1>4. Set(m, a, v) \in Memories
  BY <1>2, <1>3 DEF Memories
<1>5. DOMAIN m = addresses
  BY <1>1
<1> QED
  BY <1>4, <1>5 DEF Set

\* What adds no reference leaves them right.
LEMMA UsesStay ==
  ASSUME UsesInv, refs' = refs, defs \subseteq defs', banked' = banked
  PROVE  UsesInv'
<1>1. Ends' = Ends /\ Refs' = Refs /\ uses' = uses /\ mem' = mem /\ FWORDLIST' = FWORDLIST
  BY DEF Ends, EndNames, Refs, refs, ScopeOf
<1>2. \A u \in uses : Explained(u) => Explained(u)'
  BY <1>1 DEF Explained, Lonely
<1> QED
  BY <1>1, <1>2 DEF UsesInv

\* A name as a word.
LEMMA UsesRefer ==
  ASSUME QueueInv, DefsInv, TablesInv, UsesInv, address \in Nat,
         NEW name, DecodesName(name, address),
         defs' = defs, banked' = banked
  PROVE  UsesInv' /\ \E u : u.at = address /\ uses' = uses \cup {u}
<1>0. PICK a : a = address
  OBVIOUS
<1> DEFINE found == decode_token(name, a)
           use == [name |-> name, file |-> top.file, at |-> a, line |-> Len(src),
                   global |-> name \in GlobalDeclarations,
                   seen |-> {d \in defs : d.name = name}]
           ref == [symbol |-> IsLocalVar(name), address |-> a]
<1>1. PICK u, r : u = use /\ r = ref
  OBVIOUS
<1>2. /\ u.name = name /\ u.file = top.file /\ u.at = a
      /\ u.global = (name \in GlobalDeclarations) /\ u.seen = {d \in defs : d.name = name}
  BY <1>1
<1>3. uses' = uses \cup {u}
  BY <1>0, <1>1 DEF DecodesName
<1>4. /\ found = {} => FWORDLIST' = Append(FWORDLIST, r) /\ mem' = Set(mem, a, Hole)
      /\ found # {} => FWORDLIST' = FWORDLIST /\ \E v \in found : mem' = Set(mem, a, v)
  BY <1>0, <1>1 DEF DecodesName
<1>5. PICK v : /\ v \in Int /\ mem' = Set(mem, a, v)
               /\ found # {} => \E d \in defs : d.name = name /\ v = Str2Word(d.value)
  <2>1. CASE found = {}
    BY <1>4, <2>1 DEF Hole
  <2>2. CASE found # {}
    <3>1. PICK v \in found : mem' = Set(mem, a, v)
      BY <1>4, <2>2
    <3>2. v \in 0 .. AddressSize - 1 /\ \E d \in defs : d.name = name /\ v = Str2Word(d.value)
      BY <3>1, DecodeSound
    <3>3. v \in Int
      BY <3>2, AssemblerAssumption
    <3> QED
      BY <3>1, <3>2, <3>3
  <2> QED
    BY <2>1, <2>2
<1>6. /\ mem \in Memories /\ FWORDLIST \in Seq(Refs)
      /\ \A w \in uses : /\ w.at \in Nat /\ w.at \in DOMAIN mem
                         /\ w.name \in Ends => w.global
                         /\ Explained(w)
  BY DEF UsesInv
<1>7. /\ mem' \in Memories /\ DOMAIN mem' = DOMAIN mem \cup {a} /\ mem'[a] = v
      /\ \A x \in DOMAIN mem : x # a => mem'[x] = mem[x]
  <2>1. a \in Nat /\ v \in Int /\ mem \in Memories
    BY <1>0, <1>5, <1>6
  <2>2. /\ Set(mem, a, v) \in Memories /\ DOMAIN Set(mem, a, v) = DOMAIN mem \cup {a}
        /\ Set(mem, a, v)[a] = v
        /\ \A x \in DOMAIN mem : x # a => Set(mem, a, v)[x] = mem[x]
    BY <2>1, SetMemory
  <2> QED
    BY <1>5, <2>2
<1>8. r \in Refs'
  <2>1. IsLocalVar(name) = <<u.name, ScopeOf(u)>>
    BY <1>2, ScopeIs DEF ScopeOf
  <2>2. r = [symbol |-> <<u.name, ScopeOf(u)>>, address |-> u.at]
    BY <1>1, <1>2, <2>1
  <2> QED
    BY <1>3, <2>2 DEF Refs, ScopeOf
<1>9. Refs \subseteq Refs'
  BY <1>3 DEF Refs, ScopeOf
<1>10. FWORDLIST \in Seq(Refs')
  BY <1>6, <1>9, SeqMonotonic
<1>11. /\ FWORDLIST' \in Seq(Refs')
       /\ \A i \in DOMAIN FWORDLIST : i \in DOMAIN FWORDLIST' /\ FWORDLIST'[i] = FWORDLIST[i]
       /\ found = {} => \E i \in DOMAIN FWORDLIST' : FWORDLIST'[i] = r
  <2>1. CASE found = {}
    <3>1. /\ Append(FWORDLIST, r) \in Seq(Refs') /\ Len(Append(FWORDLIST, r)) = Len(FWORDLIST) + 1
          /\ \A i \in 1 .. Len(FWORDLIST) : Append(FWORDLIST, r)[i] = FWORDLIST[i]
          /\ Append(FWORDLIST, r)[Len(FWORDLIST) + 1] = r
      BY <1>8, <1>10, AppendProperties
    <3>2. /\ DOMAIN Append(FWORDLIST, r) = 1 .. Len(FWORDLIST) + 1
          /\ DOMAIN FWORDLIST = 1 .. Len(FWORDLIST) /\ Len(FWORDLIST) \in Nat
      BY <1>10, <3>1, LenProperties
    <3>3. Len(FWORDLIST) + 1 \in DOMAIN Append(FWORDLIST, r)
      BY <3>2
    <3> QED
      BY <1>4, <2>1, <3>1, <3>2, <3>3
  <2>2. CASE found # {}
    BY <1>4, <1>10, <2>2
  <2> QED
    BY <2>1, <2>2
<1>12. Ends' = Ends /\ Ends \subseteq GlobalDeclarations
  BY DEF Ends, EndNames, DefsInv
<1>13. Explained(u)'
  <2>1. CASE found = {}
    <3>1. \A d \in u.seen : d.key[2] # NoScope
      BY <1>2, <2>1, DecodeEmpty
    <3>2. \E i \in DOMAIN FWORDLIST' : FWORDLIST'[i].address = u.at
      BY <1>1, <1>2, <1>11, <2>1
    <3> QED
      BY <3>1, <3>2 DEF Explained
  <2>2. CASE found # {}
    <3>1. PICK d \in defs : d.name = name /\ v = Str2Word(d.value)
      BY <1>5, <2>2
    <3> QED
      BY <1>2, <1>7, <3>1 DEF Explained
  <2> QED
    BY <2>1, <2>2
<1>14. ASSUME NEW w \in uses, w # u PROVE Explained(w)'
  <2> SUFFICES ASSUME Lonely(w)'
               PROVE  \/ \E d \in defs : d.name = w.name /\ mem'[w.at] = Str2Word(d.value)
                      \/ /\ \E i \in DOMAIN FWORDLIST' : FWORDLIST'[i].address = w.at
                         /\ \A d \in w.seen : d.key[2] # NoScope
    BY DEF Explained
  <2>1. u.at # w.at
    BY <1>3, <1>14 DEF Lonely
  <2>2. Lonely(w)
    BY <1>3 DEF Lonely
  <2>3. mem'[w.at] = mem[w.at]
    BY <1>2, <1>6, <1>7, <2>1
  <2>4. Explained(w)
    BY <1>6
  <2>5. CASE \E d \in defs : d.name = w.name /\ mem[w.at] = Str2Word(d.value)
    BY <2>3, <2>5
  <2>6. CASE /\ \E i \in DOMAIN FWORDLIST : FWORDLIST[i].address = w.at
             /\ \A d \in w.seen : d.key[2] # NoScope
    BY <1>11, <2>6
  <2> QED
    BY <2>2, <2>4, <2>5, <2>6 DEF Explained
<1>15. \A w \in uses' : /\ w.at \in Nat /\ w.at \in DOMAIN mem'
                        /\ w.name \in Ends' => w.global
                        /\ Explained(w)'
  BY <1>0, <1>2, <1>3, <1>6, <1>7, <1>12, <1>13, <1>14
<1> QED
  BY <1>0, <1>2, <1>3, <1>7, <1>11, <1>15 DEF UsesInv

-----------------------------------------------------------------------------
(***************************************************************************)
(* Banks: what .ENTRY found, and where the code of each bank goes on.      *)
(***************************************************************************)
IsCode(d) == "code" \in DOMAIN d /\ d.code

\* Each label in the code has its bank, until another of its key has its own.
CodeInv ==
  /\ \A d \in defs : IsCode(d) => d.key \in DOMAIN CodeLabelBanks /\ d.value < AddressSize
  /\ \A k \in DOMAIN CodeLabelBanks :
       \E d \in defs : IsCode(d) /\ d.key = k /\ d.bank = CodeLabelBanks[k]

MayMean(d, u) == IsCode(d) /\ d.name = u.name /\ d.key[2] \in {NoScope, ScopeOf(u)}

EntryInv ==
  EntryExplicit =>
    /\ entered.seen \subseteq defs
    /\ \E d \in entered.seen : d.name = entered.name /\ Entry = Str2Word(d.value)
    /\ (\E d \in entered.seen : MayMean(d, entered)) =>
         \E d \in entered.seen : IsCode(d) /\ d.name = entered.name /\ EntryBank = d.bank

BanksInv ==
  /\ CodeSegment \in Nat /\ codehighaddress \in Nat /\ bank_of(address) = CodeSegment
  /\ \A b \in DOMAIN CodeAddresses : CodeAddresses[b] \in Nat
  /\ \A u \in uses : u.at < codehighaddress

\* Where the code of a bank goes on.
Goes(b) == IF b = CodeSegment THEN offset_of(address) ELSE Get(CodeAddresses, b, 0)

ApartInv ==
  \A u \in uses : offset_of(u.at) < Goes(bank_of(u.at)) /\ Lonely(u)

\* An end of a bank's code that goes up only leaves references apart.
LEMMA ApartStays ==
  ASSUME UsesInv, ApartInv, address \in Nat, address' \in Nat, address <= address',
         uses' = uses, CodeSegment' = CodeSegment, CodeAddresses' = CodeAddresses,
         bank_of(address) = CodeSegment, WithinBank
  PROVE  ApartInv'
<1>1. PICK a, c : a = address /\ c = address'
  OBVIOUS
<1>2. offset_of(a) <= offset_of(c)
  <2>1. CASE a = c
    BY <1>1, <2>1, Offsets
  <2>2. CASE a # c
    <3>1. a \in Nat /\ c \in Nat /\ a < c /\ bank_of(a) = bank_of(c)
      BY <1>1, <2>2 DEF WithinBank, bank_of
    <3>2. offset_of(a) < offset_of(c)
      BY <3>1, SameBank
    <3>3. offset_of(a) \in Nat /\ offset_of(c) \in Nat
      BY <3>1, Offsets
    <3> QED
      BY <3>2, <3>3
  <2> QED
    BY <2>1, <2>2
<1>3. offset_of(a) \in Nat /\ offset_of(c) \in Nat
  BY <1>1, Offsets
<1>4. ASSUME NEW u \in uses PROVE offset_of(u.at) < Goes(bank_of(u.at))' /\ Lonely(u)'
  <2>1. /\ offset_of(u.at) < Goes(bank_of(u.at)) /\ Lonely(u)
        /\ offset_of(u.at) \in Nat
    BY Offsets DEF ApartInv, UsesInv
  <2>2. Goes(bank_of(u.at)) = (IF bank_of(u.at) = CodeSegment THEN offset_of(a)
                                                             ELSE Get(CodeAddresses, bank_of(u.at), 0))
    BY <1>1 DEF Goes
  <2>3. Goes(bank_of(u.at))' = (IF bank_of(u.at) = CodeSegment THEN offset_of(c)
                                                             ELSE Get(CodeAddresses, bank_of(u.at), 0))
    BY <1>1 DEF Goes, offset_of, bank_of, Get
  <2> HIDE DEF Goes
  <2>4. offset_of(u.at) < Goes(bank_of(u.at))'
    BY <1>2, <1>3, <2>1, <2>2, <2>3
  <2> QED
    BY <2>1, <2>4 DEF Lonely
<1> QED
  BY <1>4 DEF ApartInv, offset_of, bank_of

\* A reference where the code goes on is apart from the others, and so is the next.
LEMMA ApartRefers ==
  ASSUME UsesInv, ApartInv, address \in Nat, address' = address + 1,
         NEW u, u.at = address, uses' = uses \cup {u},
         CodeSegment' = CodeSegment, CodeAddresses' = CodeAddresses,
         bank_of(address) = CodeSegment, WithinBank
  PROVE  ApartInv'
<1>1. PICK a, c : a = address /\ c = address'
  OBVIOUS
<1>2. /\ a \in Nat /\ c \in Nat /\ a < c /\ bank_of(a) = bank_of(c) /\ bank_of(a) = CodeSegment
      /\ u.at = a
  BY <1>1 DEF WithinBank, bank_of
<1>3. offset_of(a) < offset_of(c) /\ offset_of(a) \in Nat /\ offset_of(c) \in Nat
  BY <1>2, SameBank, Offsets
<1>4. \A w : /\ Goes(bank_of(w.at)) = (IF bank_of(w.at) = CodeSegment THEN offset_of(a)
                                       ELSE Get(CodeAddresses, bank_of(w.at), 0))
             /\ Goes(bank_of(w.at))' = (IF bank_of(w.at) = CodeSegment THEN offset_of(c)
                                        ELSE Get(CodeAddresses, bank_of(w.at), 0))
  BY <1>1 DEF Goes, offset_of, bank_of, Get
<1>5. ASSUME NEW w \in uses
      PROVE  /\ offset_of(w.at) < Goes(bank_of(w.at)) /\ Lonely(w)
             /\ offset_of(w.at) \in Nat /\ w.at \in Nat
  BY Offsets DEF ApartInv, UsesInv
<1>6. ASSUME NEW w \in uses PROVE w.at # a
  <2> SUFFICES ASSUME w.at = a PROVE FALSE
    OBVIOUS
  <2>1. Goes(bank_of(w.at)) = offset_of(a)
    BY <1>2, <1>4
  <2> HIDE DEF Goes
  <2> QED
    BY <1>3, <1>5, <2>1
<1>7. ASSUME NEW w \in uses' PROVE offset_of(w.at) < Goes(bank_of(w.at))' /\ Lonely(w)'
  <2>1. CASE w = u
    <3>1. offset_of(w.at) < Goes(bank_of(w.at))'
      BY <1>2, <1>3, <1>4, <2>1
    <3>2. Lonely(w)'
      BY <1>2, <1>6, <2>1 DEF Lonely
    <3> QED
      BY <3>1, <3>2
  <2>2. CASE w # u
    <3>1. w \in uses
      BY <2>2
    <3>2. /\ offset_of(w.at) < Goes(bank_of(w.at)) /\ Lonely(w)
          /\ offset_of(w.at) \in Nat /\ w.at # a
      BY <1>5, <1>6, <3>1
    <3> HIDE DEF Goes
    <3>3. offset_of(w.at) < Goes(bank_of(w.at))'
      BY <1>3, <1>4, <3>2
    <3>4. Lonely(w)'
      BY <1>2, <3>2 DEF Lonely
    <3> QED
      BY <3>3, <3>4
  <2> QED
    BY <2>1, <2>2
<1> QED
  BY <1>7 DEF ApartInv, offset_of, bank_of

\* A bank that is come back to goes on where it was.
LEMMA ApartSwitches ==
  ASSUME UsesInv, ApartInv, BanksInv, PlaceTyped, NEW b \in Nat, Code(b), WithinBank
  PROVE  ApartInv' /\ BanksInv'
<1>1. /\ CodeSegment \in Nat /\ bank_of(address) = CodeSegment /\ address \in Nat
      /\ \A c \in DOMAIN CodeAddresses : CodeAddresses[c] \in Nat
      /\ codehighaddress \in Nat /\ \A u \in uses : u.at < codehighaddress
  BY DEF BanksInv, PlaceTyped
<1>2. PICK a, s : a = address /\ s = CodeSegment
  OBVIOUS
<1>3. PICK l : l = Leaving
  OBVIOUS
<1>4. l = Set(CodeAddresses, s, offset_of(a)) /\ offset_of(a) \in Nat
  BY <1>1, <1>2, <1>3, Offsets DEF Leaving
<1>5. /\ CodeAddresses' = l /\ CodeSegment' = b
      /\ address' = physical(b, Get(l, b, 0)) /\ uses' = uses
      /\ codehighaddress' = codehighaddress
  BY <1>3 DEF Code, refs
<1>6. \A c \in DOMAIN l : l[c] \in Nat
  BY <1>1, <1>4 DEF Set
<1>7. PICK x \in Nat : x = Get(l, b, 0)
  BY <1>6 DEF Get
<1>8. PICK n : n = address'
  OBVIOUS
<1>9. n = b * AddressSize + x /\ n \div AddressSize = b
  BY <1>5, <1>7, <1>8 DEF WithinBank, bank_of, physical
<1>10. n \in Nat
  <2>1. AddressSize \in Nat
    BY AssemblerAssumption
  <2>2. b * AddressSize \in Nat
    BY <2>1, SMT
  <2> QED
    BY <1>9, <2>2
<1>11. offset_of(n) = x
  <2>1. n = bank_of(n) * AddressSize + offset_of(n) /\ bank_of(n) = b /\ offset_of(n) \in Nat
    BY <1>9, <1>10, Offsets DEF bank_of
  <2>2. AddressSize \in Nat
    BY AssemblerAssumption
  <2>3. b * AddressSize \in Nat
    BY <2>2, SMT
  <2> QED
    BY <1>9, <2>1, <2>3
<1>12. \A c : /\ Goes(c) = (IF c = s THEN offset_of(a) ELSE Get(CodeAddresses, c, 0))
              /\ Goes(c)' = (IF c = b THEN offset_of(n) ELSE Get(l, c, 0))
  BY <1>2, <1>5, <1>8 DEF Goes, offset_of, Get
<1>13. \A c : Goes(c)' = Goes(c)
  BY <1>4, <1>7, <1>11, <1>12 DEF Get, Set
<1>14. ApartInv'
  BY <1>5, <1>13 DEF ApartInv, Lonely, offset_of, bank_of
<1>15. BanksInv'
  BY <1>1, <1>5, <1>6 DEF BanksInv, WithinBank
<1> QED
  BY <1>14, <1>15

-----------------------------------------------------------------------------
(***************************************************************************)
(* The invariant: what holds while the assembler goes on.                  *)
(***************************************************************************)
\* In the program of cpu.py no word with a label is past highwater.
BelowHigh == \A u \in uses : u.at < highwater

StateInv ==
  /\ PlaceTyped /\ DefsInv /\ TablesInv /\ UsesInv
  /\ ~ banked => BelowHigh
  /\ banked => CodeInv /\ EntryInv /\ BanksInv
  /\ banked /\ ~ Moved => ApartInv

\* What changes neither places, labels nor references leaves it.
LEMMA Idle ==
  ASSUME StateInv, Moved => Moved', highaddress' \in Nat,
         UNCHANGED <<address, dataaddress, DataSegment, highwater, Entry, labels, refs, banks, banked>>
  PROVE  StateInv'
<1>1. PlaceTyped'
  BY DEF StateInv, PlaceTyped
<1>2. DefsInv' /\ TablesInv'
  BY DEF StateInv, DefsInv, TablesInv, Keyed, Says, labels, Ends, EndNames
<1>3. UsesInv'
  BY UsesStay DEF StateInv, labels
<1>4. ~ banked' => BelowHigh'
  BY DEF StateInv, BelowHigh, refs
<1>5. banked' => CodeInv' /\ EntryInv' /\ BanksInv'
  BY DEF StateInv, CodeInv, EntryInv, MayMean, ScopeOf, BanksInv, bank_of, labels, refs, banks,
    code, entry
<1>6. banked' /\ ~ Moved' => ApartInv'
  BY DEF StateInv, ApartInv, Goes, Lonely, Get, offset_of, bank_of, refs, banks, code
<1> QED
  BY <1>1, <1>2, <1>3, <1>4, <1>5, <1>6 DEF StateInv

-----------------------------------------------------------------------------
(***************************************************************************)
(* The commands that make labels.                                          *)
(***************************************************************************)
LEMMA DefinesLabelAdds ==
  ASSUME QueueInv, DefsInv, TablesInv, NEW name, NEW v \in Nat, DefinesLabel(name, v),
         banked' = banked
  PROVE  DefsInv' /\ TablesInv' /\ defs \subseteq defs'
<1>1. PICK h : /\ LocVarHist' = Set(LocVarHist, IsLocalVar(name), h)
               /\ Prolongs(h, HistoryOf(IsLocalVar(name)), v)
  BY UpdatesHistory DEF DefinesLabel
<1>2. PICK d : d = [name |-> name, file |-> top.file, key |-> IsLocalVar(name), value |-> v]
  OBVIOUS
<1>3. d.name = name /\ d.file = top.file /\ d.key = IsLocalVar(name) /\ d.value = v
  BY <1>2
<1>4. /\ defs' = defs \cup {d} /\ FileLabels' = Set(FileLabels, IsLocalVar(name), v)
      /\ GlobalDeclarations' = GlobalDeclarations
      /\ GlobeLabels' = GlobeLabels
         \/ (name \in GlobalDeclarations /\ GlobeLabels' = Set(GlobeLabels, name, v))
  BY <1>2 DEF DefinesLabel, NamesValue
<1> QED
  BY <1>1, <1>3, <1>4, LabelAdds

\* With banks, what is kept of the label is its offset and its bank.
LEMMA DefinesAdds ==
  ASSUME QueueInv, DefsInv, TablesInv, address \in Nat, NEW token, NEW a \in Nat, NEW v \in Nat,
         Str2Word(v) = Str2Word(offset_of(a)), Defines(token, a, v), banked' = banked
  PROVE  /\ DefsInv' /\ TablesInv'
         /\ \E d : /\ defs' = defs \cup {d} /\ d.key = IsLocalVar(NameOf(token))
                   /\ d.value = offset_of(a) /\ d.bank = bank_of(a)
                   /\ IsCode(d) <=> token.t = ":"
<1> DEFINE name == NameOf(token)
<1>1. PICK h : /\ LocVarHist' = Set(LocVarHist, IsLocalVar(name), h)
               /\ Prolongs(h, HistoryOf(IsLocalVar(name)), v)
  BY UpdatesHistory24 DEF Defines
<1>2. PICK d : d = [name |-> name, file |-> top.file, key |-> IsLocalVar(name),
                    value |-> offset_of(a), bank |-> bank_of(a), code |-> token.t = ":"]
  OBVIOUS
<1>3. /\ d.name = name /\ d.file = top.file /\ d.key = IsLocalVar(name)
      /\ d.value = offset_of(a) /\ d.bank = bank_of(a) /\ d.code = (token.t = ":")
      /\ "code" \in DOMAIN d
  BY <1>2
<1>4. /\ defs' = defs \cup {d} /\ FileLabels' = Set(FileLabels, IsLocalVar(name), v)
      /\ GlobalDeclarations' = GlobalDeclarations
      /\ GlobeLabels' = GlobeLabels
         \/ (name \in GlobalDeclarations /\ GlobeLabels' = Set(GlobeLabels, name, v))
  BY <1>2 DEF Defines, NamesValue
<1>5. d.value \in Nat /\ Str2Word(v) = Str2Word(d.value)
  BY <1>3, Offsets
<1>6. DefsInv' /\ TablesInv'
  BY <1>1, <1>3, <1>4, <1>5, LabelAdds
<1> QED
  BY <1>3, <1>4, <1>6 DEF IsCode

LEMMA EquateAdds ==
  ASSUME QueueInv, DefsInv, TablesInv, address \in Nat, NEW token, NEW v \in Nat,
         Equate(token, v), banked' = banked,
         \/ UpdateVarHistory(IsLocalVar(NameOf(token)), v, address)
         \/ UpdateVarHistory24(IsLocalVar(NameOf(token)), v, address)
  PROVE  /\ DefsInv' /\ TablesInv'
         /\ \E d : defs' = defs \cup {d} /\ ~ IsCode(d)
<1> DEFINE name == NameOf(token)
<1>1. PICK h : /\ LocVarHist' = Set(LocVarHist, IsLocalVar(name), h)
               /\ Prolongs(h, HistoryOf(IsLocalVar(name)), v)
  BY UpdatesHistory, UpdatesHistory24
<1>2. PICK d : d = [name |-> name, file |-> top.file, key |-> IsLocalVar(name), value |-> v]
  OBVIOUS
<1>3. /\ d.name = name /\ d.file = top.file /\ d.key = IsLocalVar(name) /\ d.value = v
      /\ "code" \notin DOMAIN d
  BY <1>2
<1>4. /\ defs' = defs \cup {d} /\ FileLabels' = Set(FileLabels, IsLocalVar(name), v)
      /\ GlobalDeclarations' = GlobalDeclarations /\ GlobeLabels' = GlobeLabels
  BY <1>2 DEF Equate
<1>5. DefsInv' /\ TablesInv'
  BY <1>1, <1>3, <1>4, LabelAdds
<1> QED
  BY <1>3, <1>4, <1>5 DEF IsCode

LEMMA GlobalAdds ==
  ASSUME DefsInv, TablesInv, NEW token, Global(token), banked' = banked
  PROVE  DefsInv' /\ TablesInv'
BY DEF Global, DefsInv, TablesInv, Keyed, Says, Ends, EndNames

-----------------------------------------------------------------------------
(***************************************************************************)
(* The commands of cpu.py.                                                 *)
(***************************************************************************)
LEMMA LabelsStay ==
  ASSUME DefsInv, TablesInv, labels' = labels, banked' = banked
  PROVE  DefsInv' /\ TablesInv'
BY DEF DefsInv, TablesInv, Keyed, Says, labels, Ends, EndNames

\* A word, an instruction or a string.
LEMMA DecodesAll ==
  ASSUME QueueInv, DefsInv, TablesInv, UsesInv, PlaceTyped, NEW token, DecodeStr(token),
         labels' = labels, banked' = banked
  PROVE  /\ UsesInv' /\ address' = address + 1
         /\ highwater' \in Nat /\ highwater <= highwater'
         /\ uses' = uses \/ \E u : u.at = address /\ uses' = uses \cup {u} /\ address < highwater'
<1>1. address \in Nat /\ highwater \in Nat /\ defs' = defs
  BY DEF PlaceTyped, labels
<1>2. CASE DecodesName(NameOf(token), address)
  <2>1. UsesInv' /\ \E u : u.at = address /\ uses' = uses \cup {u}
    BY <1>1, <1>2, UsesRefer
  <2>2. highwater' = Bigger(highwater, address + 1)
    BY <1>2 DEF DecodesName, Highest
  <2>3. highwater' \in Nat /\ highwater <= highwater' /\ address + 1 <= highwater'
    BY <1>1, <2>2, BiggerOf
  <2>4. address < highwater'
    BY <1>1, <2>3
  <2> QED
    BY <2>1, <2>3, <2>4 DEF DecodeStr
<1>3. CASE refs' = refs /\ highwater' \in {highwater, Bigger(highwater, address + 1)}
  <2>1. UsesInv' /\ uses' = uses
    BY <1>1, <1>3, UsesStay DEF refs
  <2>2. highwater' \in Nat /\ highwater <= highwater'
    BY <1>1, <1>3, BiggerOf
  <2> QED
    BY <2>1, <2>2 DEF DecodeStr
<1> QED
  BY <1>2, <1>3 DEF DecodeStr

LEMMA OneCommand ==
  ASSUME QueueInv, StateInv, ~ banked, NEW token \in Queued, execute_assembler_command(token),
         stop' = "no", banked' = banked, src' = src
  PROVE  StateInv'
<1>1. /\ PlaceTyped /\ DefsInv /\ TablesInv /\ UsesInv /\ BelowHigh
      /\ address \in Nat /\ dataaddress \in Nat /\ highaddress \in Nat /\ highwater \in Nat
      /\ Entry \in Nat /\ DataSegment \in Nat \cup {NoSegment}
  BY DEF StateInv, PlaceTyped
<1> SUFFICES PlaceTyped' /\ DefsInv' /\ TablesInv' /\ UsesInv' /\ BelowHigh'
  BY DEF StateInv
<1>2. \A x, y \in Nat : Bigger(x, y) \in Nat /\ x <= Bigger(x, y)
  BY BiggerOf
<1>3. CASE token.t = ":" /\ Label(token)
  <2>1. DefsInv' /\ TablesInv' /\ defs \subseteq defs'
    BY <1>1, <1>3, DefinesLabelAdds DEF Label
  <2>2. UsesInv'
    BY <1>1, <1>3, <2>1, UsesStay DEF Label
  <2>3. PlaceTyped' /\ BelowHigh'
    BY <1>1, <1>3 DEF Label, PlaceTyped, BelowHigh, place, refs
  <2> QED
    BY <2>1, <2>2, <2>3
<1>4. CASE token.t = "::" /\ DataLabel(token)
  <2>1. PICK a \in Nat : /\ a = (IF DataSegment = NoSegment THEN address ELSE dataaddress)
    BY <1>1
  <2>2. DefinesLabel(NameOf(token), a) /\ highwater' = Bigger(highwater, a + 1) /\ DataSegment # NoSegment
    BY <1>4, <2>1 DEF DataLabel
  <2>3. DefsInv' /\ TablesInv' /\ defs \subseteq defs'
    BY <1>1, <2>2, DefinesLabelAdds
  <2>4. UsesInv'
    BY <1>1, <1>4, <2>3, UsesStay DEF DataLabel
  <2>5. PlaceTyped'
    BY <1>1, <1>2, <1>4, <2>1, <2>2 DEF DataLabel, PlaceTyped
  <2>6. BelowHigh'
    <3>1. highwater' \in Nat /\ highwater <= highwater' /\ uses' = uses
      BY <1>1, <1>2, <1>4, <2>1, <2>2 DEF DataLabel, refs
    <3>2. \A u \in uses : u.at \in Nat
      BY <1>1 DEF UsesInv
    <3> QED
      BY <1>1, <3>1, <3>2 DEF BelowHigh
  <2> QED
    BY <2>3, <2>4, <2>5, <2>6
<1>5. CASE token.t \in {"=", ".", ".ORG", ".DATA"}
  <2>1. PICK v \in FirstPassVal(token) : Evaluated(token, v)
    BY <1>5 DEF execute_assembler_command, NoValue
  <2>2. v \in Nat
    BY <1>1, <2>1, OperandOf
  <2>3. CASE token.t = "="
    <3>1. Equate(token, v) /\ UpdateVarHistory(IsLocalVar(NameOf(token)), v, address)
      BY <2>1, <2>3 DEF Evaluated
    <3>2. DefsInv' /\ TablesInv' /\ defs \subseteq defs'
      BY <1>1, <2>2, <3>1, EquateAdds
    <3>3. UsesInv'
      BY <1>1, <3>1, <3>2, UsesStay DEF Equate
    <3>4. PlaceTyped' /\ BelowHigh'
      BY <1>1, <3>1 DEF Equate, PlaceTyped, BelowHigh, place, refs
    <3> QED
      BY <3>2, <3>3, <3>4
  <2>4. CASE token.t \in {".", ".ORG", ".DATA"}
    <3>1. (token.t \in {".", ".ORG"} /\ Org(token, v)) \/ Data(v)
      BY <2>1, <2>4 DEF Evaluated
    <3>2. labels' = labels /\ refs' = refs /\ defs' = defs
      BY <3>1 DEF Org, Data, labels
    <3>3. DefsInv' /\ TablesInv' /\ UsesInv'
      BY <1>1, <3>2, LabelsStay, UsesStay
    <3>4. PlaceTyped' /\ BelowHigh'
      BY <1>1, <2>2, <3>1 DEF Org, Data, PlaceTyped, BelowHigh, refs
    <3> QED
      BY <3>3, <3>4
  <2> QED
    BY <1>5, <2>3, <2>4
<1>6. CASE token.t = "G" /\ Global(token)
  <2>1. DefsInv' /\ TablesInv'
    BY <1>1, <1>6, GlobalAdds
  <2>2. UsesInv'
    BY <1>1, <1>6, UsesStay DEF Global
  <2>3. PlaceTyped' /\ BelowHigh'
    BY <1>1, <1>6 DEF Global, PlaceTyped, BelowHigh, place, refs
  <2> QED
    BY <2>1, <2>2, <2>3
<1>7. CASE token.t = "MF" /\ MF(token)
  <2>1. labels' = labels /\ refs' = refs /\ defs' = defs
    BY <1>7 DEF MF, labels
  <2>2. DefsInv' /\ TablesInv' /\ UsesInv'
    BY <1>1, <2>1, LabelsStay, UsesStay
  <2>3. PlaceTyped' /\ BelowHigh'
    BY <1>1, <1>7 DEF MF, PlaceTyped, BelowHigh, place, refs
  <2> QED
    BY <2>2, <2>3
<1>8. CASE Raw(token)
  <2>1. /\ DecodeStr(token) /\ labels' = labels
        /\ highaddress' = Bigger(Bigger(highaddress, address), dataaddress)
        /\ dataaddress' = dataaddress /\ DataSegment' = DataSegment /\ Entry' = Entry
    BY <1>8 DEF Raw
  <2>2. /\ UsesInv' /\ address' = address + 1
        /\ highwater' \in Nat /\ highwater <= highwater'
        /\ uses' = uses \/ \E u : u.at = address /\ uses' = uses \cup {u} /\ address < highwater'
    BY <1>1, <2>1, DecodesAll
  <2>3. DefsInv' /\ TablesInv'
    BY <1>1, <2>1, LabelsStay
  <2>4. PlaceTyped'
    BY <1>1, <1>2, <2>1, <2>2 DEF PlaceTyped
  <2>5. BelowHigh'
    <3>1. \A u \in uses : u.at \in Nat /\ u.at < highwater
      BY <1>1 DEF UsesInv, BelowHigh
    <3>2. \A u \in uses : u.at < highwater'
      BY <1>1, <2>2, <3>1
    <3> QED
      BY <2>2, <3>2 DEF BelowHigh
  <2> QED
    BY <2>2, <2>3, <2>4, <2>5
<1> QED
  BY <1>3, <1>4, <1>5, <1>6, <1>7, <1>8 DEF execute_assembler_command

-----------------------------------------------------------------------------
(***************************************************************************)
(* The commands of cpu24.py.                                               *)
(***************************************************************************)
LEMMA EntryStays ==
  ASSUME EntryInv, defs \subseteq defs', Entry' = Entry, EntryBank' = EntryBank,
         EntryExplicit' = EntryExplicit, entered' = entered
  PROVE  EntryInv'
BY DEF EntryInv, MayMean, ScopeOf

LEMMA CodeStays ==
  ASSUME CodeInv, defs \subseteq defs', \A d \in defs' : IsCode(d) => d \in defs,
         CodeLabelBanks' = CodeLabelBanks
  PROVE  CodeInv'
<1>1. \A d : IsCode(d)' = IsCode(d)
  BY DEF IsCode
<1> QED
  BY <1>1 DEF CodeInv, IsCode

\* The places in the banks, when the code stays in its bank.
LEMMA BanksStay ==
  ASSUME BanksInv, UsesInv, codehighaddress' \in Nat, codehighaddress <= codehighaddress',
         CodeSegment' = CodeSegment, WithinBank, uses' = uses,
         CodeAddresses' = CodeAddresses \/ \E v \in Nat : CodeAddresses' = Set(CodeAddresses, CodeSegment, v)
  PROVE  BanksInv'
<1>1. \A b \in DOMAIN CodeAddresses' : CodeAddresses'[b] \in Nat
  BY DEF BanksInv, Set
<1>2. \A u \in uses' : u.at < codehighaddress'
  BY DEF BanksInv, UsesInv
<1> QED
  BY <1>1, <1>2 DEF BanksInv, WithinBank

LEMMA LabelIsCode ==
  ASSUME QueueInv, CodeInv, BanksInv, address \in Nat,
         NEW d, NEW k, d.key = k, d.value = offset_of(address), d.bank = bank_of(address),
         IsCode(d), defs' = defs \cup {d},
         CodeLabelBanks' = Set(CodeLabelBanks, k, CodeSegment)
  PROVE  CodeInv'
<1>1. d.value < AddressSize /\ d.bank = CodeSegment
  BY Offsets, AssemblerAssumption DEF BanksInv
<1>2. /\ DOMAIN CodeLabelBanks' = DOMAIN CodeLabelBanks \cup {k}
      /\ CodeLabelBanks'[k] = CodeSegment
      /\ \A j \in DOMAIN CodeLabelBanks : j # k => CodeLabelBanks'[j] = CodeLabelBanks[j]
  BY DEF Set
<1>3. \A e \in defs' : IsCode(e) => e.key \in DOMAIN CodeLabelBanks' /\ e.value < AddressSize
  BY <1>1, <1>2 DEF CodeInv
<1>4. \A j \in DOMAIN CodeLabelBanks' :
        \E e \in defs' : IsCode(e) /\ e.key = j /\ e.bank = CodeLabelBanks'[j]
  BY <1>1, <1>2 DEF CodeInv
<1> QED
  BY <1>3, <1>4 DEF CodeInv, IsCode

\* What .ENTRY finds of a label, and its bank.
LEMMA EntryFinds ==
  ASSUME QueueInv, DefsInv, TablesInv, CodeInv, NEW token, EntryPoint(token), stop' = "no"
  PROVE  EntryInv' /\ Entry' \in Nat
<1>1. PICK name : name = NameOf(token)
  OBVIOUS
<1>2. PICK e : e = [name |-> name, file |-> top.file, seen |-> defs,
                    global |-> name \in GlobalDeclarations]
  OBVIOUS
<1>3. /\ e.name = name /\ e.file = top.file /\ e.seen = defs
      /\ e.global = (name \in GlobalDeclarations)
  BY <1>2
<1>4. PICK v \in decode_token(name, address) : Entry' = v
  BY <1>1 DEF EntryPoint
<1>5. entered' = e /\ EntryBank' = BankOf(name) /\ defs' = defs
  BY <1>1, <1>2 DEF EntryPoint, labels
<1>6. v \in 0 .. AddressSize - 1 /\ \E d \in defs : d.name = name /\ v = Str2Word(d.value)
  BY <1>4, DecodeSound
<1>7. v \in Nat
  BY <1>6, AssemblerAssumption
<1>8. IsLocalVar(name) = <<name, ScopeOf(e)>>
  BY <1>3, ScopeIs DEF ScopeOf
<1>9. ASSUME NEW d \in defs, MayMean(d, e)
      PROVE  \E f \in defs : IsCode(f) /\ f.name = name /\ EntryBank' = f.bank
  <2>1. IsCode(d) /\ d.name = name /\ d.key[2] \in {NoScope, ScopeOf(e)} /\ d.key = <<d.name, d.key[2]>>
    BY <1>3, <1>9 DEF MayMean, DefsInv, Keyed
  <2>2. d.key \in DOMAIN CodeLabelBanks
    BY <1>9, <2>1 DEF CodeInv
  <2>3. PICK k \in DOMAIN CodeLabelBanks : k \in {IsLocalVar(name), <<name, NoScope>>}
                                           /\ EntryBank' = CodeLabelBanks[k]
    <3>1. CASE IsLocalVar(name) \in DOMAIN CodeLabelBanks
      BY <1>5, <3>1 DEF BankOf, Get
    <3>2. CASE IsLocalVar(name) \notin DOMAIN CodeLabelBanks
      <4>1. d.key = <<name, NoScope>>
        BY <1>8, <2>1, <2>2, <3>2
      <4> QED
        BY <1>5, <2>2, <3>2, <4>1 DEF BankOf, Get
    <3> QED
      BY <3>1, <3>2
  <2>4. PICK f \in defs : IsCode(f) /\ f.key = k /\ f.bank = CodeLabelBanks[k]
    BY DEF CodeInv
  <2>5. f.name = name
    <3>1. f.key = <<f.name, f.key[2]>>
      BY DEF DefsInv, Keyed
    <3>2. k[1] = name
      BY <1>8, <2>3
    <3> QED
      BY <2>4, <3>1, <3>2
  <2> QED
    BY <2>3, <2>4, <2>5
<1>10. /\ e.seen \subseteq defs
       /\ \E d \in e.seen : d.name = e.name /\ v = Str2Word(d.value)
       /\ (\E d \in e.seen : MayMean(d, e)) =>
            \E d \in e.seen : IsCode(d) /\ d.name = e.name /\ EntryBank' = d.bank
  BY <1>3, <1>6, <1>9
<1> QED
  BY <1>4, <1>5, <1>7, <1>10 DEF EntryInv, MayMean, ScopeOf, IsCode

\* The parts that a command with banks may change.
BankedInv ==
  /\ PlaceTyped /\ DefsInv /\ TablesInv /\ UsesInv
  /\ CodeInv /\ EntryInv /\ BanksInv
  /\ ~ Moved => ApartInv

\* A command that leaves the labels and the references.
LEMMA PlacesChange ==
  ASSUME BankedInv, labels' = labels, refs' = refs, banked' = banked, src' = src, PlaceTyped',
         EntryInv', BanksInv', CodeLabelBanks' = CodeLabelBanks, ~ Moved => ApartInv'
  PROVE  BankedInv'
<1>1. defs' = defs
  BY DEF labels
<1>2. DefsInv' /\ TablesInv' /\ UsesInv'
  BY <1>1, LabelsStay, UsesStay DEF BankedInv
<1>3. CodeInv'
  BY <1>1, CodeStays DEF BankedInv
<1>4. Moved' = Moved
  BY DEF Moved
<1> QED
  BY <1>2, <1>3, <1>4 DEF BankedInv

\* The place of the code and all about .ENTRY stay as well.
LEMMA CodeNotMoved ==
  ASSUME BankedInv, refs' = refs, src' = src, address' = address, WithinBank, code' = code,
         Entry' = Entry, entry' = entry, defs \subseteq defs'
  PROVE  EntryInv' /\ BanksInv' /\ (~ Moved => ApartInv') /\ Moved' = Moved
<1>1. EntryInv'
  BY EntryStays DEF BankedInv, entry
<1>2. codehighaddress' = codehighaddress /\ codehighaddress \in Nat /\ codehighaddress <= codehighaddress
  BY DEF BankedInv, BanksInv, code
<1>3. BanksInv'
  BY <1>2, BanksStay DEF BankedInv, code, refs
<1>4. address \in Nat /\ address <= address /\ bank_of(address) = CodeSegment
  BY DEF BankedInv, PlaceTyped, BanksInv
<1>5. ~ Moved => ApartInv'
  BY <1>4, ApartStays DEF BankedInv, code, refs
<1> QED
  BY <1>1, <1>3, <1>5 DEF Moved

LEMMA LabelBanked ==
  ASSUME QueueInv, BankedInv, NEW token, token.t = ":", Label24(token),
         banked' = banked, src' = src, WithinBank
  PROVE  BankedInv'
<1>1. address \in Nat /\ PlaceTyped'
  BY DEF BankedInv, Label24, PlaceTyped, place
<1>2. PICK a \in Nat : a = address
  BY <1>1
<1>3. PICK k : k = IsLocalVar(NameOf(token))
  OBVIOUS
<1>4. offset_of(a) \in Nat /\ Str2Word(offset_of(a)) = Str2Word(offset_of(a))
  BY Offsets
<1>5. /\ DefsInv' /\ TablesInv'
      /\ \E d : /\ defs' = defs \cup {d} /\ d.key = k
                /\ d.value = offset_of(a) /\ d.bank = bank_of(a) /\ IsCode(d)
  BY <1>1, <1>2, <1>3, <1>4, DefinesAdds DEF BankedInv, Label24
<1>6. CodeInv'
  BY <1>1, <1>2, <1>3, <1>5, LabelIsCode DEF BankedInv, Label24
<1>7. defs \subseteq defs' /\ refs' = refs /\ address' = address /\ code' = code
      /\ entry' = entry /\ Entry' = Entry
  BY <1>5 DEF Label24, place
<1>8. UsesInv'
  BY <1>7, UsesStay DEF BankedInv
<1>9. EntryInv' /\ BanksInv' /\ (~ Moved => ApartInv') /\ Moved' = Moved
  BY <1>7, CodeNotMoved
<1> QED
  BY <1>1, <1>5, <1>6, <1>8, <1>9 DEF BankedInv

LEMMA DataLabelBanked ==
  ASSUME QueueInv, BankedInv, NEW token, token.t = "::", DataLabel24(token),
         banked' = banked, src' = src, WithinBank
  PROVE  BankedInv'
<1>1. /\ address \in Nat /\ dataaddress \in Nat /\ highaddress \in Nat /\ highwater \in Nat
      /\ Entry \in Nat /\ DataSegment \in Nat \cup {NoSegment}
      /\ codehighaddress \in Nat /\ bank_of(address) = CodeSegment
  BY DEF BankedInv, PlaceTyped, BanksInv
<1>2. PICK a \in Nat : a = (IF DataSegment = NoSegment THEN address ELSE dataaddress)
  BY <1>1
<1>3. PICK v \in Nat : /\ v = (IF DataSegment = NoSegment THEN a ELSE offset_of(a))
                       /\ Str2Word(v) = Str2Word(offset_of(a))
  <2>1. offset_of(a) \in Nat /\ Str2Word(a) = Str2Word(offset_of(a))
    BY Offsets, WordOf
  <2> QED
    BY <2>1
<1>4. Defines(token, a, v)
  BY <1>2, <1>3 DEF DataLabel24
<1>5. /\ DefsInv' /\ TablesInv'
      /\ \E d : defs' = defs \cup {d} /\ ~ IsCode(d)
  BY <1>1, <1>3, <1>4, DefinesAdds DEF BankedInv
<1>6. /\ refs' = refs /\ uses' = uses /\ defs \subseteq defs' /\ Entry' = Entry /\ EntryBank' = EntryBank
      /\ EntryExplicit' = EntryExplicit /\ entered' = entered
      /\ CodeLabelBanks' = CodeLabelBanks /\ CodeSegment' = CodeSegment
      /\ CodeAddresses' = CodeAddresses /\ DataSegment' = DataSegment
      /\ highwater' = Bigger(highwater, a + 1)
  BY <1>2, <1>5 DEF DataLabel24, refs, entry
<1>7. CodeInv' /\ EntryInv' /\ UsesInv'
  BY <1>5, <1>6, CodeStays, EntryStays, UsesStay DEF BankedInv
<1>8. \/ /\ address' = a + 1 /\ a = address /\ codehighaddress' = Bigger(codehighaddress, a + 1)
         /\ dataaddress' = dataaddress /\ highaddress' = highaddress
      \/ /\ dataaddress' = a + 1 /\ highaddress' = Bigger(highaddress, a + 1)
         /\ address' = address /\ codehighaddress' = codehighaddress
  BY <1>2 DEF DataLabel24
<1>9. /\ \A x \in Nat : Bigger(x, a + 1) \in Nat /\ x <= Bigger(x, a + 1)
  BY BiggerOf
<1>10. /\ PlaceTyped' /\ address' \in Nat /\ address <= address'
       /\ codehighaddress' \in Nat /\ codehighaddress <= codehighaddress'
  BY <1>1, <1>6, <1>8, <1>9 DEF PlaceTyped
<1>11. BanksInv'
  BY <1>6, <1>10, BanksStay DEF BankedInv
<1>12. ~ Moved => ApartInv'
  BY <1>1, <1>6, <1>10, ApartStays DEF BankedInv
<1>13. Moved' = Moved
  BY DEF Moved
<1> QED
  BY <1>5, <1>7, <1>10, <1>11, <1>12, <1>13 DEF BankedInv

LEMMA RawBanked ==
  ASSUME QueueInv, BankedInv, NEW token, Raw24(token), banked' = banked, src' = src, WithinBank
  PROVE  BankedInv'
<1>1. /\ address \in Nat /\ dataaddress \in Nat /\ highaddress \in Nat /\ highwater \in Nat
      /\ Entry \in Nat /\ DataSegment \in Nat \cup {NoSegment}
      /\ codehighaddress \in Nat /\ bank_of(address) = CodeSegment
      /\ \A u \in uses : u.at \in Nat /\ u.at < codehighaddress
  BY DEF BankedInv, PlaceTyped, BanksInv, UsesInv
<1>2. /\ DecodeStr(token) /\ labels' = labels /\ defs' = defs
      /\ highaddress' = Bigger(Bigger(highaddress, address), dataaddress)
      /\ codehighaddress' = Bigger(codehighaddress, address + 1)
      /\ dataaddress' = dataaddress /\ DataSegment' = DataSegment /\ Entry' = Entry
      /\ CodeSegment' = CodeSegment /\ CodeAddresses' = CodeAddresses
      /\ CodeLabelBanks' = CodeLabelBanks /\ EntryBank' = EntryBank
      /\ EntryExplicit' = EntryExplicit /\ entered' = entered
  BY DEF Raw24, labels, entry
<1>3. /\ UsesInv' /\ address' = address + 1 /\ highwater' \in Nat
      /\ uses' = uses \/ \E u : u.at = address /\ uses' = uses \cup {u}
  BY <1>2, DecodesAll DEF BankedInv
<1>4. DefsInv' /\ TablesInv' /\ CodeInv' /\ EntryInv'
  BY <1>2, LabelsStay, CodeStays, EntryStays DEF BankedInv
<1>5. \A x, y \in Nat : Bigger(x, y) \in Nat /\ x <= Bigger(x, y) /\ y <= Bigger(x, y)
  BY BiggerOf
<1>6. PlaceTyped'
  BY <1>1, <1>2, <1>3, <1>5 DEF PlaceTyped
<1>7. /\ codehighaddress' \in Nat /\ codehighaddress <= codehighaddress'
      /\ address < codehighaddress'
  BY <1>1, <1>2, <1>5
<1>8. BanksInv'
  <2>1. \A u \in uses' : u.at < codehighaddress'
    BY <1>1, <1>3, <1>7
  <2> QED
    BY <1>2, <1>7, <2>1 DEF BankedInv, BanksInv, WithinBank
<1>9. ASSUME ~ Moved PROVE ApartInv'
  <2>1. CASE uses' = uses
    <3>1. address' \in Nat /\ address <= address'
      BY <1>1, <1>3
    <3> QED
      BY <1>1, <1>2, <1>9, <2>1, <3>1, ApartStays DEF BankedInv
  <2>2. CASE \E u : u.at = address /\ uses' = uses \cup {u}
    BY <1>1, <1>2, <1>3, <1>9, <2>2, ApartRefers DEF BankedInv
  <2> QED
    BY <1>3, <2>1, <2>2
<1>10. Moved' = Moved
  BY DEF Moved
<1> QED
  BY <1>3, <1>4, <1>6, <1>8, <1>9, <1>10 DEF BankedInv

LEMMA EquateBanked ==
  ASSUME QueueInv, BankedInv, NEW token, NEW v \in Nat, Equate24(token, v),
         banked' = banked, src' = src, WithinBank
  PROVE  BankedInv'
<1>1. address \in Nat /\ PlaceTyped'
  BY DEF BankedInv, Equate24, Equate, PlaceTyped, place
<1>2. /\ DefsInv' /\ TablesInv'
      /\ \E d : defs' = defs \cup {d} /\ ~ IsCode(d)
  BY <1>1, EquateAdds DEF BankedInv, Equate24
<1>3. /\ defs \subseteq defs' /\ refs' = refs /\ address' = address /\ code' = code
      /\ entry' = entry /\ Entry' = Entry /\ CodeLabelBanks' = CodeLabelBanks
  BY <1>2 DEF Equate24, Equate, place, banks
<1>4. CodeInv' /\ UsesInv'
  BY <1>2, <1>3, CodeStays, UsesStay DEF BankedInv
<1>5. EntryInv' /\ BanksInv' /\ (~ Moved => ApartInv') /\ Moved' = Moved
  BY <1>3, CodeNotMoved
<1> QED
  BY <1>1, <1>2, <1>4, <1>5 DEF BankedInv

\* The commands about places: only . and .ORG put the code where other code may be.
LEMMA PlaceBanked ==
  ASSUME QueueInv, BankedInv, NEW token \in Queued, NEW v \in Nat,
         \/ token.t \in {".", ".ORG"} /\ Org24(token, v)
         \/ Code(v) \/ Data24(v) \/ DataCopy(v),
         banked' = banked, src' = src, WithinBank
  PROVE  BankedInv'
<1>1. /\ PlaceTyped /\ address \in Nat /\ CodeSegment \in Nat /\ bank_of(address) = CodeSegment
      /\ BanksInv /\ UsesInv
  BY DEF BankedInv, PlaceTyped, BanksInv
<1>2. AddressSize \in Nat
  BY AssemblerAssumption
<1>3. CASE token.t \in {".", ".ORG"} /\ Org24(token, v)
  <2>1. address' = CodeSegment * AddressSize + v
    BY <1>3 DEF Org24, physical
  <2>2. address' \in Nat
    <3>1. CodeSegment * AddressSize \in Nat
      BY <1>1, <1>2, SMT
    <3> QED
      BY <2>1, <3>1
  <2>3. PlaceTyped'
    BY <1>1, <1>3, <2>2 DEF Org24, PlaceTyped
  <2>4. /\ labels' = labels /\ refs' = refs /\ uses' = uses /\ defs' = defs
        /\ CodeLabelBanks' = CodeLabelBanks /\ CodeSegment' = CodeSegment
        /\ codehighaddress' = codehighaddress
        /\ CodeAddresses' = Set(CodeAddresses, CodeSegment, v)
        /\ Entry' = Entry /\ EntryBank' = EntryBank /\ EntryExplicit' = EntryExplicit
        /\ entered' = entered
    BY <1>3 DEF Org24, labels, refs
  <2>5. EntryInv'
    BY <2>4, EntryStays DEF BankedInv
  <2>6. BanksInv'
    <3>1. codehighaddress' \in Nat /\ codehighaddress <= codehighaddress'
      BY <1>1, <2>4 DEF BanksInv
    <3> QED
      BY <1>1, <2>4, <3>1, BanksStay
  <2>7. Moved
    BY <1>3 DEF Queued
  <2> QED
    BY <2>3, <2>4, <2>5, <2>6, <2>7, PlacesChange
<1>4. CASE Code(v)
  <2>1. /\ labels' = labels /\ refs' = refs /\ uses' = uses /\ defs' = defs
        /\ CodeLabelBanks' = CodeLabelBanks
        /\ Entry' = Entry /\ EntryBank' = EntryBank /\ EntryExplicit' = EntryExplicit
        /\ entered' = entered
        /\ address' = physical(v, Get(Leaving, v, 0))
    BY <1>4 DEF Code, labels, refs, entry
  <2>2. \A b \in DOMAIN Leaving : Leaving[b] \in Nat
    BY <1>1, Offsets DEF Leaving, Set, BanksInv
  <2>3. PICK x \in Nat : x = Get(Leaving, v, 0)
    BY <2>2 DEF Get
  <2>4. address' \in Nat
    <3>1. v * AddressSize \in Nat
      BY <1>2, SMT
    <3> QED
      BY <2>1, <2>3, <3>1 DEF physical
  <2>5. PlaceTyped'
    BY <1>1, <1>4, <2>4 DEF Code, PlaceTyped
  <2>6. EntryInv'
    BY <2>1, EntryStays DEF BankedInv
  <2>7. BanksInv' /\ (~ Moved => ApartInv')
    <3>1. CASE ~ Moved
      BY <1>1, <1>4, <3>1, ApartSwitches DEF BankedInv
    <3>2. CASE Moved
      <4>1. \A b \in DOMAIN CodeAddresses' : CodeAddresses'[b] \in Nat
        BY <1>4, <2>2 DEF Code
      <4>2. CodeSegment' = v /\ codehighaddress' = codehighaddress
        BY <1>4 DEF Code
      <4> QED
        BY <1>1, <2>1, <3>2, <4>1, <4>2 DEF BanksInv, WithinBank
    <3> QED
      BY <3>1, <3>2
  <2> QED
    BY <2>1, <2>5, <2>6, <2>7, PlacesChange
<1>5. CASE Data24(v) \/ DataCopy(v)
  <2>1. /\ labels' = labels /\ defs' = defs /\ refs' = refs /\ address' = address /\ code' = code
        /\ entry' = entry /\ Entry' = Entry /\ CodeLabelBanks' = CodeLabelBanks
    BY <1>5 DEF Data24, DataCopy, labels, place
  <2>2. PlaceTyped'
    <3>1. physical(v, 0) \in Nat
      BY <1>2, SMT DEF physical
    <3> QED
      BY <1>1, <1>5, <3>1 DEF Data24, DataCopy, PlaceTyped, place
  <2>3. EntryInv' /\ BanksInv' /\ (~ Moved => ApartInv')
    BY <2>1, CodeNotMoved
  <2> QED
    BY <2>1, <2>2, <2>3, PlacesChange
<1> QED
  BY <1>3, <1>4, <1>5

LEMMA EntryBanked ==
  ASSUME QueueInv, BankedInv, NEW token, EntryPoint(token), stop' = "no",
         banked' = banked, src' = src, WithinBank
  PROVE  BankedInv'
<1>1. EntryInv' /\ Entry' \in Nat
  BY EntryFinds DEF BankedInv
<1>2. /\ labels' = labels /\ refs' = refs /\ uses' = uses /\ address' = address
      /\ CodeLabelBanks' = CodeLabelBanks /\ CodeSegment' = CodeSegment
      /\ CodeAddresses' = CodeAddresses /\ codehighaddress' = codehighaddress
  BY DEF EntryPoint, refs, code
<1>3. PlaceTyped'
  BY <1>1 DEF BankedInv, PlaceTyped, EntryPoint
<1>4. /\ codehighaddress' \in Nat /\ codehighaddress <= codehighaddress'
      /\ address \in Nat /\ address <= address' /\ address' \in Nat /\ bank_of(address) = CodeSegment
  BY <1>2 DEF BankedInv, BanksInv, PlaceTyped
<1>5. BanksInv' /\ (~ Moved => ApartInv')
  BY <1>2, <1>4, BanksStay, ApartStays DEF BankedInv
<1> QED
  BY <1>1, <1>2, <1>3, <1>5, PlacesChange

LEMMA GlobalBanked ==
  ASSUME BankedInv, NEW token, Global24(token) \/ MF24(token),
         banked' = banked, src' = src, WithinBank
  PROVE  BankedInv'
<1>1. DefsInv' /\ TablesInv' /\ defs' = defs
  BY GlobalAdds, LabelsStay DEF BankedInv, Global24, MF24, Global, MF, labels
<1>2. /\ refs' = refs /\ address' = address /\ code' = code /\ place' = place
      /\ entry' = entry /\ Entry' = Entry /\ CodeLabelBanks' = CodeLabelBanks
  BY DEF Global24, MF24, Global, MF, place, banks
<1>3. CodeInv' /\ UsesInv'
  BY <1>1, <1>2, CodeStays, UsesStay DEF BankedInv
<1>4. PlaceTyped'
  BY <1>2 DEF BankedInv, PlaceTyped, place
<1>5. EntryInv' /\ BanksInv' /\ (~ Moved => ApartInv') /\ Moved' = Moved
  BY <1>1, <1>2, CodeNotMoved
<1> QED
  BY <1>1, <1>3, <1>4, <1>5 DEF BankedInv

LEMMA BankedCommand ==
  ASSUME QueueInv, BankedInv, NEW token \in Queued, execute_assembler_command24(token),
         stop' = "no", banked' = banked, src' = src, WithinBank
  PROVE  BankedInv'
<1>1. CASE token.t = ":" /\ Label24(token)
  BY <1>1, LabelBanked
<1>2. CASE token.t = "::" /\ DataLabel24(token)
  BY <1>2, DataLabelBanked
<1>3. CASE token.t \in {"=", ".", ".ORG", ".CODE", ".DATA", ".DATACOPY"}
  <2>1. PICK v \in FirstPassVal(token) : Evaluated24(token, v)
    BY <1>3 DEF execute_assembler_command24, NoValue
  <2>2. v \in Nat
    BY <2>1, OperandOf DEF BankedInv
  <2>3. CASE token.t = "="
    BY <2>1, <2>2, <2>3, EquateBanked DEF Evaluated24
  <2>4. CASE token.t \in {".", ".ORG"}
    BY <2>1, <2>2, <2>4, PlaceBanked DEF Evaluated24
  <2>5. CASE token.t \in {".CODE", ".DATA", ".DATACOPY"}
    <3>1. Code(v) \/ Data24(v) \/ DataCopy(v)
      BY <2>1, <2>5 DEF Evaluated24
    <3> QED
      BY <2>2, <3>1, PlaceBanked
  <2> QED
    BY <1>3, <2>3, <2>4, <2>5
<1>4. CASE EntryPoint(token)
  BY <1>4, EntryBanked
<1>5. CASE Global24(token) \/ MF24(token)
  BY <1>5, GlobalBanked
<1>6. CASE Raw24(token)
  BY <1>6, RawBanked
<1> QED
  BY <1>1, <1>2, <1>3, <1>4, <1>5, <1>6 DEF execute_assembler_command24

-----------------------------------------------------------------------------
(***************************************************************************)
(* The steps of both programs.                                             *)
(***************************************************************************)
Inv == banked \in BOOLEAN /\ (stop = "no" => QueueInv /\ StateInv)

LEMMA Starts ==
  ASSUME Init24
  PROVE  Inv /\ stop = "no"
<1>1. /\ open = <<[file |-> Main, lorg |-> "global", local |-> Main, cmdq |-> <<>>]>>
      /\ MacroStack = <<>> /\ unique = 0 /\ src = <<>>
      /\ address = 0 /\ dataaddress = 0 /\ DataSegment = NoSegment
      /\ highaddress = 0 /\ highwater = 0 /\ Entry = 0
      /\ FileLabels = <<>> /\ GlobeLabels = <<>> /\ GlobalDeclarations = Ends
      /\ LocVarHist = <<>> /\ FWORDLIST = <<>> /\ mem = <<>> /\ uses = {} /\ defs = {}
      /\ stop = "no" /\ banked \in BOOLEAN
      /\ CodeSegment = 0 /\ CodeAddresses = [b \in {0} |-> 0] /\ CodeLabelBanks = <<>>
      /\ codehighaddress = 0 /\ EntryExplicit = FALSE
  BY DEF Init24, InitWith, Ends
<1>2. DOMAIN FileLabels = {} /\ DOMAIN GlobeLabels = {} /\ DOMAIN LocVarHist = {}
      /\ DOMAIN CodeLabelBanks = {} /\ DOMAIN mem = {}
  BY <1>1
<1>3. QueueInv
  <2> DEFINE frame == [file |-> Main, lorg |-> "global", local |-> Main, cmdq |-> <<>>]
  <2>1. frame \in Frames(Commands) /\ Scoped(frame)
    BY EmptySeq, AssemblerAssumption DEF Frames, Files, Scoped
  <2> HIDE DEF frame
  <2>2. open \in Seq(Frames(Commands)) /\ open # <<>> /\ DOMAIN open = {1} /\ open[1] = frame
    BY <1>1, <2>1 DEF frame
  <2> QED
    BY <1>1, <2>1, <2>2, EmptySeq DEF QueueInv, Opened
<1>4. DefsInv /\ TablesInv
  BY <1>1, <1>2, FS_EmptySet DEF DefsInv, TablesInv
<1>5. UsesInv
  <2>1. mem \in Memories
    <3>1. mem \in [{} -> Int] /\ {} \in SUBSET Nat
      BY <1>1
    <3> QED
      BY <3>1 DEF Memories
  <2> QED
    BY <1>1, <2>1, EmptySeq DEF UsesInv
<1>6. bank_of(address) = CodeSegment
  <2>1. AddressSize \in Nat \ {0}
    BY AssemblerAssumption
  <2>2. 0 \div AddressSize = 0
    BY <2>1, SMT
  <2> QED
    BY <1>1, <2>2 DEF bank_of
<1>7. PlaceTyped /\ BelowHigh /\ CodeInv /\ EntryInv /\ BanksInv /\ ApartInv
  BY <1>1, <1>2, <1>6 DEF PlaceTyped, BelowHigh, CodeInv, EntryInv, BanksInv, ApartInv
<1> QED
  BY <1>1, <1>3, <1>4, <1>5, <1>7 DEF Inv, StateInv

\* What the loop does by itself.
LEMMA LoopStep ==
  ASSUME QueueInv, StateInv, LoopExecutes \/ LoadsFile \/ Skip \/ EndBlock \/ Condition,
         UNCHANGED <<banked, banks>>
  PROVE  QueueInv' /\ StateInv'
<1>1. QueueInv'
  BY LoopExecutesQueue, LoadsFileQueue, SkipQueue, BlocksQueue
<1>2. place' = place /\ labels' = labels /\ refs' = refs /\ src' = src
  BY DEF LoopExecutes, SubstitutionFails, NothingToExecute, ExpandsMacro, Substitutes, LoadsFile,
    Skip, EndBlock, Condition, Fails
<1>3. Moved => Moved'
  BY <1>2 DEF Moved
<1>4. highaddress' \in Nat
  BY <1>2 DEF place, StateInv, PlaceTyped
<1> QED
  BY <1>1, <1>2, <1>3, <1>4, Idle DEF place

LEMMA ReadStep ==
  ASSUME QueueInv, StateInv, NEW texts, ReadsOneOf(texts), UNCHANGED <<banked, banks>>
  PROVE  QueueInv' /\ StateInv'
<1>1. address \in Nat /\ highaddress \in Nat
  BY DEF StateInv, PlaceTyped
<1>2. QueueInv' /\ (Moved => Moved')
  BY <1>1, ReadQueue
<1>3. place' = place /\ labels' = labels /\ refs' = refs
  BY DEF ReadsOneOf
<1> QED
  BY <1>1, <1>2, <1>3, Idle DEF place

\* A file that another one loads ends.
LEMMA PopStep ==
  ASSUME QueueInv, StateInv, EndOfFile \/ EndOfFile24, stop' = "no", UNCHANGED <<banked, banks>>
  PROVE  QueueInv' /\ StateInv'
<1>1. /\ Len(open) # 1 /\ open' = Front(open) /\ highaddress' = address
      /\ UNCHANGED <<stacks, src>>
      /\ UNCHANGED <<address, dataaddress, DataSegment, highwater, Entry, labels, refs>>
  BY DEF EndOfFile, EndOfFile24, EndsFile, labels, refs
<1>2. QueueInv'
  BY <1>1, PopQueue
<1>3. Moved => Moved'
  BY <1>1 DEF Moved
<1>4. highaddress' \in Nat
  BY <1>1 DEF StateInv, PlaceTyped
<1> QED
  BY <1>1, <1>2, <1>3, <1>4, Idle

LEMMA CommandStep ==
  ASSUME QueueInv, StateInv, banked \in BOOLEAN, TakesCommand, stop' = "no", banked' = banked,
         \/ ~ banked /\ execute_assembler_command(done.text[1]) /\ UNCHANGED banks
         \/ banked /\ execute_assembler_command24(done.text[1]) /\ WithinBank
  PROVE  QueueInv' /\ StateInv'
<1>1. PICK token : token = done.text[1]
  OBVIOUS
<1>2. QueueInv' /\ token \in Queued /\ src' = src
  BY <1>1, TakesCommandQueue DEF TakesCommand, Substitutes
<1>3. CASE ~ banked
  BY <1>1, <1>2, <1>3, OneCommand
<1>4. CASE banked
  BY <1>1, <1>2, <1>4, BankedCommand DEF StateInv, BankedInv
<1> QED
  BY <1>2, <1>3, <1>4

\* A program that goes on keeps the invariant.
LEMMA GoesOn ==
  ASSUME Inv, Next24, stop = "no", stop' = "no"
  PROVE  Inv'
<1>1. QueueInv /\ StateInv /\ banked \in BOOLEAN /\ banked' = banked
  BY DEF Inv, Next24, NextOne, NextBanked
<1>2. CASE NextOne
  <2>1. ~ banked /\ Next /\ UNCHANGED <<banked, banks>>
    BY <1>2 DEF NextOne
  <2>2. CASE read_next_source_command
    BY <1>1, <2>1, <2>2, ReadStep DEF read_next_source_command, Inv
  <2>3. CASE EndOfFile
    BY <1>1, <2>1, <2>3, PopStep DEF Inv
  <2>4. CASE Skip \/ EndBlock \/ Condition \/ LoopExecutes \/ LoadsFile
    BY <1>1, <2>1, <2>4, LoopStep DEF Inv
  <2>5. CASE TakesCommand /\ execute_assembler_command(done.text[1])
    BY <1>1, <2>1, <2>5, CommandStep DEF Inv
  <2> QED
    BY <2>1, <2>2, <2>3, <2>4, <2>5 DEF Next, Execute
<1>3. CASE NextBanked
  <2>1. banked /\ WithinBank
    BY <1>3 DEF NextBanked
  <2>2. CASE read_next_source_command24
    BY <1>1, <2>1, <2>2, ReadStep DEF read_next_source_command24, Inv
  <2>3. CASE EndOfFile24
    <3>1. UNCHANGED <<banked, banks>>
      BY <1>1, <2>3 DEF EndOfFile24
    <3> QED
      BY <1>1, <2>3, <3>1, PopStep DEF Inv
  <2>4. CASE /\ Skip \/ EndBlock \/ Condition \/ LoopExecutes \/ LoadsFile
             /\ UNCHANGED banks
    BY <1>1, <2>4, LoopStep DEF Inv
  <2>5. CASE TakesCommand /\ execute_assembler_command24(done.text[1])
    BY <1>1, <2>1, <2>5, CommandStep DEF Inv
  <2> QED
    BY <1>3, <2>2, <2>3, <2>4, <2>5
    DEF NextBanked, Skip24, EndBlock24, Condition24, Execute24, Loads24
<1> QED
  BY <1>2, <1>3 DEF Next24

\* It stops but once, and with the end of the outermost file unless it fails.
LEMMA Stops ==
  ASSUME Next24
  PROVE  /\ stop = "no"
         /\ stop' \notin {"no", "error"} =>
              /\ stop' = "done" /\ UNCHANGED <<banked, banks>>
              /\ UNCHANGED <<address, dataaddress, DataSegment, highwater, highaddress, Entry,
                             FWORDLIST, uses, defs, src>>
              /\ ~ banked => resolve_all_forward_references
              /\ banked => resolve_all_forward_references24
<1>1. CASE EndOfFile /\ ~ banked /\ UNCHANGED <<banked, banks>>
  <2>1. CASE Len(open) = 1
    BY <1>1, <2>1 DEF EndOfFile, EndsFile
  <2>2. CASE Len(open) # 1
    BY <1>1, <2>2 DEF EndOfFile, EndsFile
  <2> QED
    BY <2>1, <2>2
<1>2. CASE EndOfFile24 /\ banked /\ UNCHANGED banked
  BY <1>2 DEF EndOfFile24, EndsFile
<1>3. CASE \/ read_next_source_command \/ read_next_source_command24
           \/ Skip \/ EndBlock \/ Condition \/ LoopExecutes \/ LoadsFile
  <2>1. stop = "no"
    BY <1>3 DEF read_next_source_command, read_next_source_command24, ReadsOneOf, Skip, EndBlock,
      Condition, LoopExecutes, LoadsFile, SubstitutionFails, NothingToExecute, ExpandsMacro,
      Substitutes, Working
  <2>2. stop' \in {stop, "error"}
    BY <1>3 DEF read_next_source_command, read_next_source_command24, ReadsOneOf, Skip, EndBlock,
      Condition, LoopExecutes, LoadsFile, SubstitutionFails, NothingToExecute, ExpandsMacro, Fails
  <2> QED
    BY <2>1, <2>2
<1>4. CASE TakesCommand /\ execute_assembler_command(done.text[1])
  <2>1. stop = "no"
    BY <1>4 DEF TakesCommand, Substitutes, Working
  <2>2. PICK token : execute_assembler_command(token)
    BY <1>4
  <2>3. stop' \in {stop, "error"}
    BY <2>2 DEF execute_assembler_command, Label, DataLabel, NoValue, Evaluated, Equate, Org, Data,
      Global, MF, Raw
  <2> QED
    BY <2>1, <2>3
<1>5. CASE TakesCommand /\ execute_assembler_command24(done.text[1])
  <2>1. stop = "no"
    BY <1>5 DEF TakesCommand, Substitutes, Working
  <2>2. PICK token : execute_assembler_command24(token)
    BY <1>5
  <2>3. stop' \in {stop, "error"}
    BY <2>2 DEF execute_assembler_command24, Label24, DataLabel24, NoValue, Evaluated24, Equate24,
      Equate, Org24, Code, Data24, DataCopy, EntryPoint, Global24, MF24, Global, MF, Raw24
  <2> QED
    BY <2>1, <2>3
<1> QED
  BY <1>1, <1>2, <1>3, <1>4, <1>5
  DEF Next24, NextOne, NextBanked, Next, Execute, Skip24, EndBlock24, Condition24, Execute24, Loads24

-----------------------------------------------------------------------------
(***************************************************************************)
(* The end of the program: what the patching leaves in a word.             *)
(***************************************************************************)
\* Reference i is to the word at x, and is patched.
Patches(i, x, known) == FWORDLIST[i].address = x /\ FWORDLIST[i].symbol \in DOMAIN known

LEMMA PatchTyped ==
  ASSUME NEW m \in Memories, NEW known, \A k \in DOMAIN known : known[k] \in Nat,
         NEW r, r.address \in Nat
  PROVE  /\ Patch(m, known, r) \in Memories
         /\ \A x \in DOMAIN m :
              /\ x \in DOMAIN Patch(m, known, r)
              /\ ~ (r.address = x /\ r.symbol \in DOMAIN known) => Patch(m, known, r)[x] = m[x]
              /\ r.address = x /\ r.symbol \in DOMAIN known
                   => Patch(m, known, r)[x] = Str2Word(known[r.symbol])
<1>1. CASE r.symbol \in DOMAIN known
  <2>1. Str2Word(known[r.symbol]) \in Int
    <3>1. known[r.symbol] \in Nat
      BY <1>1
    <3> QED
      BY <3>1, WordOf
  <2>2. Patch(m, known, r) = Set(m, r.address, Str2Word(known[r.symbol]))
    BY <1>1 DEF Patch
  <2>3. PICK a \in Nat, w \in Int : a = r.address /\ w = Str2Word(known[r.symbol])
    BY <2>1
  <2>4. /\ Set(m, a, w) \in Memories /\ DOMAIN Set(m, a, w) = DOMAIN m \cup {a}
        /\ Set(m, a, w)[a] = w
        /\ \A x \in DOMAIN m : x # a => Set(m, a, w)[x] = m[x]
    BY SetMemory
  <2> QED
    BY <1>1, <2>2, <2>3, <2>4
<1>2. CASE r.symbol \notin DOMAIN known
  BY <1>2 DEF Patch
<1> QED
  BY <1>1, <1>2

\* A word has v at the end, when it has it before or is patched, and no reference
\* to it has another value.
LEMMA PatchedWord ==
  ASSUME UsesInv, NEW known, \A k \in DOMAIN known : known[k] \in Nat,
         NEW x \in DOMAIN mem, NEW v,
         \A i \in DOMAIN FWORDLIST :
           Patches(i, x, known) => Str2Word(known[FWORDLIST[i].symbol]) = v,
         mem[x] = v \/ \E i \in DOMAIN FWORDLIST : Patches(i, x, known)
  PROVE  x \in DOMAIN PatchFrom(mem, known) /\ PatchFrom(mem, known)[x] = v
<1> DEFINE n == Len(FWORDLIST)
           Is(f) == f = [i \in 0 .. n |-> IF i = 0 THEN mem ELSE Patch(f[i - 1], known, FWORDLIST[i])]
           f == CHOOSE f : Is(f)
           step == [p \in Memories \X (1 .. n) |-> Patch(p[1], known, FWORDLIST[p[2]])]
<1>1. /\ mem \in Memories /\ n \in Nat /\ DOMAIN FWORDLIST = 1 .. n
      /\ \A i \in 1 .. n : FWORDLIST[i].address \in Nat
  <2>1. mem \in Memories /\ FWORDLIST \in Seq(Refs) /\ \A u \in uses : u.at \in Nat
    BY DEF UsesInv
  <2>2. n \in Nat /\ DOMAIN FWORDLIST = 1 .. n /\ \A i \in 1 .. n : FWORDLIST[i] \in Refs
    BY <2>1, LenProperties, ElementOfSeq
  <2>3. \A r \in Refs : r.address \in Nat
    BY <2>1 DEF Refs
  <2> QED
    BY <2>1, <2>2, <2>3
<1>2. ASSUME NEW m \in Memories, NEW i \in 1 .. n
      PROVE  /\ Patch(m, known, FWORDLIST[i]) \in Memories
             /\ x \in DOMAIN m =>
                  /\ x \in DOMAIN Patch(m, known, FWORDLIST[i])
                  /\ ~ Patches(i, x, known) => Patch(m, known, FWORDLIST[i])[x] = m[x]
                  /\ Patches(i, x, known)
                       => Patch(m, known, FWORDLIST[i])[x] = Str2Word(known[FWORDLIST[i].symbol])
  <2>1. PICK r : r = FWORDLIST[i]
    OBVIOUS
  <2>2. r.address \in Nat /\ m \in Memories
    BY <1>1, <1>2, <2>1
  <2> HIDE DEF n, Is, f, step
  <2>3. /\ Patch(m, known, r) \in Memories
        /\ \A y \in DOMAIN m :
             /\ y \in DOMAIN Patch(m, known, r)
             /\ ~ (r.address = y /\ r.symbol \in DOMAIN known) => Patch(m, known, r)[y] = m[y]
             /\ r.address = y /\ r.symbol \in DOMAIN known
                  => Patch(m, known, r)[y] = Str2Word(known[r.symbol])
    <3>1. \A k \in DOMAIN known : known[k] \in Nat
      OBVIOUS
    <3>2. Patch(m, known, r) \in Memories
      BY <2>2, <3>1, PatchTyped
    <3>3. \A y \in DOMAIN m : y \in DOMAIN Patch(m, known, r)
      BY <2>2, <3>1, PatchTyped
    <3>4. \A y \in DOMAIN m : ~ (r.address = y /\ r.symbol \in DOMAIN known) => Patch(m, known, r)[y] = m[y]
      BY <2>2, <3>1, PatchTyped
    <3>5. \A y \in DOMAIN m : r.address = y /\ r.symbol \in DOMAIN known
                  => Patch(m, known, r)[y] = Str2Word(known[r.symbol])
      BY <2>2, <3>1, PatchTyped
    <3> QED
      BY <3>2, <3>3, <3>4, <3>5
  <2> QED
    BY <2>1, <2>3 DEF Patches
<1>3. step \in [Memories \X (1 .. n) -> Memories]
  BY <1>2
<1>4. \E g : Is(g)
  <2> HIDE DEF step
  <2>1. PICK g : Through(Memories, mem, step, g, n)
    BY <1>1, <1>3, ThroughExists
  <2>2. g \in [0 .. n -> Memories] /\ g[0] = mem /\ \A i \in 1 .. n : g[i] = step[<<g[i - 1], i>>]
    BY <2>1 DEF Through
  <2>3. ASSUME NEW i \in 0 .. n, i # 0 PROVE g[i] = Patch(g[i - 1], known, FWORDLIST[i])
    <3>1. i \in 1 .. n /\ i - 1 \in 0 .. n
      BY <1>1, <2>3
    <3>2. g[i] = step[<<g[i - 1], i>>] /\ g[i - 1] \in Memories
      BY <2>2, <3>1
    <3> QED
      BY <3>1, <3>2 DEF step
  <2>4. g = [i \in 0 .. n |-> g[i]]
    BY <2>2
  <2>5. Is(g)
    BY <2>2, <2>3, <2>4
  <2> QED
    BY <2>5
<1>5. Is(f)
  BY <1>4
<1>6. PatchFrom(mem, known) = f[n]
  BY DEF PatchFrom
<1> HIDE DEF f
<1>7. PICK j \in 0 .. n : \/ j = 0 /\ mem[x] = v
                          \/ j \in 1 .. n /\ Patches(j, x, known)
  BY <1>1
<1> DEFINE T == {k \in 0 .. n : /\ f[k] \in Memories /\ x \in DOMAIN f[k]
                                /\ j <= k => f[k][x] = v}
<1>8. 0 \in T
  <2>1. f[0] = mem /\ 0 \in 0 .. n
    BY <1>1, <1>5
  <2> QED
    BY <1>1, <1>7, <2>1
<1>9. \A k \in 0 .. n : k # n /\ k \in T => k + 1 \in T
  <2> SUFFICES ASSUME NEW k \in 0 .. n, k # n, k \in T PROVE k + 1 \in T
    OBVIOUS
  <2>1. k + 1 \in 1 .. n /\ k + 1 \in 0 .. n /\ k + 1 # 0 /\ (k + 1) - 1 = k
    <3> HIDE DEF n, T
    <3> QED
      BY <1>1
  <2>2. f[k + 1] = Patch(f[k], known, FWORDLIST[k + 1])
    BY <1>5, <2>1
  <2>3. f[k] \in Memories /\ x \in DOMAIN f[k] /\ (j <= k => f[k][x] = v)
    OBVIOUS
  <2>4. PICK m \in Memories : m = f[k]
    BY <2>3
  <2>6. PICK r : r = FWORDLIST[k + 1]
    OBVIOUS
  <2>7. /\ Patch(m, known, r) \in Memories /\ x \in DOMAIN Patch(m, known, r)
        /\ ~ Patches(k + 1, x, known) => Patch(m, known, r)[x] = m[x]
        /\ Patches(k + 1, x, known) => Patch(m, known, r)[x] = Str2Word(known[r.symbol])
    BY <1>2, <2>1, <2>3, <2>4, <2>6
  <2>8. Patches(k + 1, x, known) => Patch(m, known, r)[x] = v
    BY <1>1, <2>1, <2>6, <2>7
  <2>9. j <= k + 1 => j <= k \/ Patches(k + 1, x, known)
    <3> HIDE DEF n, T, step
    <3>1. j <= k + 1 => j <= k \/ j = k + 1
      BY <1>1
    <3>2. j = k + 1 => Patches(j, x, known)
      BY <1>7, <2>1
    <3> QED
      BY <3>1, <3>2
  <2>10. j <= k + 1 => Patch(m, known, r)[x] = v
    BY <2>3, <2>4, <2>7, <2>8, <2>9
  <2> QED
    BY <2>1, <2>2, <2>4, <2>6, <2>7, <2>10
<1>10. n \in T
  <2> HIDE DEF T
  <2>1. 0 .. n \subseteq T
    BY <1>1, <1>8, <1>9, CountsUp
  <2> QED
    BY <1>1, <2>1
<1> QED
  BY <1>1, <1>6, <1>7, <1>10

\* The labels at the end, when the names for the ends are published.
Published(known, globes) ==
  /\ \A k \in DOMAIN known : known[k] \in Nat
  /\ DOMAIN FileLabels \subseteq DOMAIN known
  /\ \A k \in DOMAIN known : k[1] \notin Ends => k \in DOMAIN FileLabels /\ known[k] = FileLabels[k]
  /\ \A e \in Ends : <<e, NoScope>> \in DOMAIN known /\ known[<<e, NoScope>>] = globes[e]

LEMMA PublishesAll ==
  ASSUME TablesInv, NEW ends, Publishes(ends), \A n \in DOMAIN ends : ends[n] \in Nat,
         EndNames = DOMAIN ends
  PROVE  /\ Published(FileLabels', GlobeLabels')
         /\ \A n \in DOMAIN ends : GlobeLabels'[<<n, 0>>] = ends[n]
<1> DEFINE keys == {<<<<n, 0>>, NoScope>> : n \in DOMAIN ends}
           globes == {<<n, 0>> : n \in DOMAIN ends}
<1>1. /\ FileLabels' = [y \in DOMAIN FileLabels \cup keys |->
                          IF y \in keys THEN ends[y[1][1]] ELSE FileLabels[y]]
      /\ GlobeLabels' = [y \in DOMAIN GlobeLabels \cup globes |->
                          IF y \in globes THEN ends[y[1]] ELSE GlobeLabels[y]]
  BY DEF Publishes
<1>2. /\ \A y \in keys : y[1] \in Ends /\ y[1][1] \in DOMAIN ends
      /\ \A n \in DOMAIN ends : <<<<n, 0>>, NoScope>> \in keys /\ <<n, 0>> \in globes
      /\ Ends = globes
  BY DEF Ends
<1>3. \A k \in DOMAIN FileLabels : FileLabels[k] \in Nat
  BY DEF TablesInv, Says
<1> HIDE DEF keys, globes
<1>4. \A k \in DOMAIN FileLabels' : FileLabels'[k] \in Nat
  BY <1>1, <1>2, <1>3
<1>5. \A k \in DOMAIN FileLabels' :
        k[1] \notin Ends => k \in DOMAIN FileLabels /\ FileLabels'[k] = FileLabels[k]
  BY <1>1, <1>2
<1>6. \A n \in DOMAIN ends : /\ <<<<n, 0>>, NoScope>> \in DOMAIN FileLabels'
                             /\ FileLabels'[<<<<n, 0>>, NoScope>>] = ends[n]
                             /\ GlobeLabels'[<<n, 0>>] = ends[n]
  BY <1>1, <1>2
<1>7. \A e \in Ends : /\ <<e, NoScope>> \in DOMAIN FileLabels'
                      /\ FileLabels'[<<e, NoScope>>] = GlobeLabels'[e]
  BY <1>6 DEF Ends
<1> QED
  BY <1>1, <1>4, <1>5, <1>6, <1>7 DEF Published

\* What is to be patched where a reference alone stands is that reference.
LEMMA PatchesIt ==
  ASSUME UsesInv, NEW u \in uses, Lonely(u),
         NEW i \in DOMAIN FWORDLIST, FWORDLIST[i].address = u.at
  PROVE  FWORDLIST[i].symbol = <<u.name, ScopeOf(u)>>
<1>1. FWORDLIST[i] \in Refs
  BY LenProperties, ElementOfSeq DEF UsesInv
<1>2. PICK w \in uses : FWORDLIST[i] = [symbol |-> <<w.name, ScopeOf(w)>>, address |-> w.at]
  BY <1>1 DEF Refs
<1>3. w = u
  BY <1>2 DEF Lonely
<1> QED
  BY <1>2, <1>3

\* The definition of a name that has one.
LEMMA TheOnly ==
  ASSUME DefsInv, NEW name, DefinedOnce(name)
  PROVE  /\ TheDef(name) \in defs /\ TheDef(name).name = name
         /\ \A d \in defs : d.name = name => d = TheDef(name)
<1> DEFINE named == {d \in defs : d.name = name}
<1>1. IsFiniteSet(named) /\ Cardinality(named) = 1
  <2>1. named \subseteq defs
    OBVIOUS
  <2> QED
    BY <2>1, FS_Subset DEF DefsInv, DefinedOnce
<1>2. \E d : named = {d}
  <2> HIDE DEF named
  <2> QED
    BY <1>1, FS_Singleton
<1>3. PICK d \in defs : d.name = name /\ \A e \in defs : e.name = name => e = d
  BY <1>2
<1> QED
  BY <1>3 DEF TheDef

\* The scope of a definition that a reference may mean.
LEMMA ScopesMeet ==
  ASSUME NEW d, NEW u, Keyed(d), d.name = u.name, Visible(d, u)
  PROVE  \/ d.key = <<u.name, ScopeOf(u)>>
         \/ d.key[2] = NoScope /\ d \in u.seen
<1>1. NoScope \notin Libs /\ Main \notin Libs
  BY AssemblerAssumption
<1>2. d.key = <<d.name, d.key[2]>>
  BY DEF Keyed
<1>3. CASE d.key[2] = NoScope
  <2>1. CASE d.file = u.file
    <3>1. u.global \/ u.file = Main
      BY <1>3, <2>1 DEF Visible
    <3>2. ScopeOf(u) = NoScope
      BY <1>1, <3>1 DEF ScopeOf
    <3> QED
      BY <1>2, <1>3, <3>2
  <2>2. CASE d.file # u.file
    <3>1. u.file = Main \/ u.global \/ d \in u.seen
      BY <2>2 DEF Visible
    <3>2. u.file = Main \/ u.global => ScopeOf(u) = NoScope
      BY <1>1 DEF ScopeOf
    <3> QED
      BY <1>2, <1>3, <3>1, <3>2
  <2> QED
    BY <2>1, <2>2
<1>4. CASE d.key[2] # NoScope
  <2>1. d.key[2] = d.file /\ d.file \in Libs /\ u.name[2] = 0
    BY <1>4 DEF Keyed
  <2>2. d.file = u.file
    BY <1>4 DEF Visible
  <2>3. ~ u.global
    BY <1>1, <1>4, <2>1, <2>2 DEF Visible
  <2>4. ScopeOf(u) = u.file
    BY <2>1, <2>2, <2>3 DEF ScopeOf
  <2> QED
    BY <1>2, <2>1, <2>2, <2>4
<1> QED
  BY <1>3, <1>4

\* A reference to a name that is defined once has that definition's value.
LEMMA MeansDefinition ==
  ASSUME DefsInv, TablesInv, UsesInv, NEW known, NEW globes, Published(known, globes),
         NEW u \in uses, Lonely(u), DefinedOnce(u.name), Visible(TheDef(u.name), u),
         u.name \notin Ends
  PROVE  /\ u.at \in DOMAIN PatchFrom(mem, known)
         /\ PatchFrom(mem, known)[u.at] = Str2Word(TheDef(u.name).value)
<1>1. PICK d : d = TheDef(u.name)
  OBVIOUS
<1>2. d \in defs /\ d.name = u.name /\ \A e \in defs : e.name = u.name => e = d
  BY <1>1, TheOnly
<1>3. PICK v : v = Str2Word(d.value)
  OBVIOUS
<1>4. Keyed(d) /\ d.key \in DOMAIN FileLabels
  BY <1>2 DEF DefsInv, Keyed
<1>5. u.at \in DOMAIN mem /\ Explained(u)
  BY DEF UsesInv
<1>6. /\ \A k \in DOMAIN known : known[k] \in Nat
      /\ DOMAIN FileLabels \subseteq DOMAIN known
      /\ \A k \in DOMAIN known : k[1] \notin Ends => k \in DOMAIN FileLabels /\ known[k] = FileLabels[k]
  BY DEF Published
<1>7. ASSUME NEW i \in DOMAIN FWORDLIST, Patches(i, u.at, known)
      PROVE  Str2Word(known[FWORDLIST[i].symbol]) = v
  <2>1. PICK k : k = FWORDLIST[i].symbol
    OBVIOUS
  <2>2. k = <<u.name, ScopeOf(u)>> /\ k \in DOMAIN known
    BY <1>7, <2>1, PatchesIt DEF Patches
  <2>3. k[1] = u.name
    BY <2>2
  <2>4. k \in DOMAIN FileLabels /\ known[k] = FileLabels[k]
    BY <1>6, <2>2, <2>3
  <2>5. PICK e \in defs : e.key = k /\ Str2Word(known[k]) = Str2Word(e.value)
    BY <2>4 DEF TablesInv, Says
  <2>6. e.key = <<e.name, e.key[2]>>
    BY DEF DefsInv, Keyed
  <2>7. e.name = u.name
    BY <2>3, <2>5, <2>6
  <2> QED
    BY <1>2, <1>3, <2>1, <2>5, <2>7
<1>8. mem[u.at] = v \/ \E i \in DOMAIN FWORDLIST : Patches(i, u.at, known)
  <2>1. CASE \E e \in defs : e.name = u.name /\ mem[u.at] = Str2Word(e.value)
    BY <1>2, <1>3, <2>1
  <2>2. CASE /\ \E i \in DOMAIN FWORDLIST : FWORDLIST[i].address = u.at
             /\ \A e \in u.seen : e.key[2] # NoScope
    <3>1. PICK i \in DOMAIN FWORDLIST : FWORDLIST[i].address = u.at
      BY <2>2
    <3>2. FWORDLIST[i].symbol = <<u.name, ScopeOf(u)>>
      BY <3>1, PatchesIt
    <3>3. d.key = <<u.name, ScopeOf(u)>>
      BY <1>1, <1>2, <1>4, <2>2, ScopesMeet
    <3> QED
      BY <1>4, <1>6, <3>1, <3>2, <3>3 DEF Patches
  <2> QED
    BY <1>5, <2>1, <2>2 DEF Explained
<1>9. \A i \in DOMAIN FWORDLIST :
        Patches(i, u.at, known) => Str2Word(known[FWORDLIST[i].symbol]) = v
  BY <1>7
<1> QED
  BY <1>1, <1>3, <1>5, <1>6, <1>8, <1>9, PatchedWord

\* A reference to an end of the code has its address, unless a label takes its name.
LEMMA MeansEnd ==
  ASSUME UsesInv, NEW known, NEW globes, Published(known, globes),
         NEW u \in uses, Lonely(u), u.name \in Ends, \A d \in defs : d.name # u.name
  PROVE  /\ u.at \in DOMAIN PatchFrom(mem, known)
         /\ PatchFrom(mem, known)[u.at] = Str2Word(globes[u.name])
<1>1. PICK v : v = Str2Word(globes[u.name])
  OBVIOUS
<1>2. u.at \in DOMAIN mem /\ Explained(u) /\ u.global
  BY DEF UsesInv
<1>3. /\ \A k \in DOMAIN known : known[k] \in Nat
      /\ <<u.name, NoScope>> \in DOMAIN known
      /\ known[<<u.name, NoScope>>] = globes[u.name]
  BY DEF Published
<1>4. \A i \in DOMAIN FWORDLIST :
        FWORDLIST[i].address = u.at => FWORDLIST[i].symbol = <<u.name, NoScope>>
  BY <1>2, PatchesIt DEF ScopeOf
<1>5. \A i \in DOMAIN FWORDLIST :
        Patches(i, u.at, known) => Str2Word(known[FWORDLIST[i].symbol]) = v
  BY <1>1, <1>3, <1>4 DEF Patches
<1>6. \E i \in DOMAIN FWORDLIST : Patches(i, u.at, known)
  BY <1>2, <1>3, <1>4 DEF Explained, Patches
<1>7. PICK x \in DOMAIN mem : x = u.at
  BY <1>2
<1>8. /\ \A i \in DOMAIN FWORDLIST :
           Patches(i, x, known) => Str2Word(known[FWORDLIST[i].symbol]) = v
      /\ \E i \in DOMAIN FWORDLIST : Patches(i, x, known)
  BY <1>5, <1>6, <1>7
<1>9. x \in DOMAIN PatchFrom(mem, known) /\ PatchFrom(mem, known)[x] = v
  <2>1. \A k \in DOMAIN known : known[k] \in Nat
    BY <1>3
  <2> QED
    BY <1>8, <2>1, PatchedWord
<1> QED
  BY <1>1, <1>7, <1>9

\* .ENTRY starts the machine in the label's bank, at its offset.
LEMMA EntersIt ==
  ASSUME DefsInv, CodeInv, EntryInv, EntryExplicit, DefinedOnce(entered.name),
         IsCode(TheDef(entered.name)), Visible(TheDef(entered.name), entered)
  PROVE  starts_at = <<TheDef(entered.name).bank, TheDef(entered.name).value>>
<1>1. PICK d : d = TheDef(entered.name)
  OBVIOUS
<1>2. d \in defs /\ d.name = entered.name /\ \A e \in defs : e.name = entered.name => e = d
  BY <1>1, TheOnly
<1>3. /\ entered.seen \subseteq defs
      /\ \E e \in entered.seen : e.name = entered.name /\ Entry = Str2Word(e.value)
      /\ (\E e \in entered.seen : MayMean(e, entered)) =>
           \E e \in entered.seen : IsCode(e) /\ e.name = entered.name /\ EntryBank = e.bank
  BY DEF EntryInv
<1>4. d \in entered.seen /\ Entry = Str2Word(d.value)
  BY <1>2, <1>3
<1>5. Keyed(d) /\ d.value \in Nat /\ d.value < AddressSize
  BY <1>1, <1>2 DEF DefsInv, CodeInv, Keyed
<1>6. Entry = d.value
  <2>1. AddressSize \in Nat \ {0}
    BY AssemblerAssumption
  <2>2. d.value % AddressSize = d.value
    BY <1>5, <2>1, SMT
  <2> QED
    BY <1>4, <2>2 DEF Str2Word
<1>7. MayMean(d, entered)
  <2>1. d.key[2] \in {NoScope, ScopeOf(entered)}
    <3>1. \/ d.key = <<entered.name, ScopeOf(entered)>>
          \/ d.key[2] = NoScope
      BY <1>1, <1>2, <1>5, ScopesMeet
    <3> QED
      BY <3>1
  <2> QED
    BY <1>1, <1>2, <2>1 DEF MayMean
<1>8. EntryBank = d.bank
  BY <1>2, <1>3, <1>4, <1>7
<1> QED
  BY <1>1, <1>6, <1>8 DEF starts_at

LEMMA EndAddress ==
  ASSUME PlaceTyped
  PROVE  end_address \in Nat /\ highwater <= end_address
<1> DEFINE S == {highwater, highaddress, address} \cup
                IF DataSegment = NoSegment THEN {} ELSE {dataaddress}
           a == Bigger(Bigger(highwater, highaddress), address)
           b == IF DataSegment = NoSegment THEN a ELSE Bigger(a, dataaddress)
<1>1. highwater \in Nat /\ highaddress \in Nat /\ address \in Nat /\ dataaddress \in Nat
  BY DEF PlaceTyped
<1>2. b \in S /\ S \subseteq Nat /\ \A y \in S : b >= y
  BY <1>1 DEF Bigger
<1>3. end_address = CHOOSE x \in S : \A y \in S : x >= y
  BY DEF end_address, Max
<1>4. end_address \in S /\ \A y \in S : end_address >= y
  <2> HIDE DEF S, b
  <2> QED
    BY <1>2, <1>3
<1>5. highwater \in S
  OBVIOUS
<1> HIDE DEF S
<1> QED
  BY <1>1, <1>2, <1>4, <1>5

LEMMA BankEnds ==
  ASSUME PlaceTyped, BanksInv
  PROVE  /\ code_end \in Nat /\ data_end \in Nat
         /\ \A u \in uses : u.at \in Nat /\ bank_of(u.at) = bank_of(Bigger(codehighaddress, address))
                              => offset_of(u.at) < code_end
<1>1. PICK c : c = Bigger(codehighaddress, address)
  OBVIOUS
<1>2. c \in Nat /\ codehighaddress <= c /\ codehighaddress \in Nat /\ dataaddress \in Nat
  BY <1>1, BiggerOf DEF PlaceTyped, BanksInv
<1>3. code_end = offset_of(c) /\ code_end \in Nat /\ data_end \in Nat
  BY <1>1, <1>2, Offsets DEF code_end, data_end
<1>4. ASSUME NEW u \in uses, u.at \in Nat, bank_of(u.at) = bank_of(c) PROVE offset_of(u.at) < code_end
  <2>1. u.at < c
    BY <1>2, <1>4 DEF BanksInv
  <2> QED
    BY <1>2, <1>3, <1>4, <2>1, SameBank
<1> QED
  BY <1>1, <1>3, <1>4

\* What is published at the end, by either program.
LEMMA EndPublishes ==
  ASSUME StateInv, banked \in BOOLEAN,
         ~ banked => resolve_all_forward_references,
         banked => resolve_all_forward_references24
  PROVE  /\ Published(FileLabels', GlobeLabels')
         /\ ~ banked => /\ mem' = PatchFrom(mem, FileLabels')
                        /\ GlobeLabels'[<<"END__", 0>>] = end_address
         /\ banked => /\ mem' = copies_code(PatchFrom(mem, FileLabels'))
                      /\ GlobeLabels'[<<"END__", 0>>] = code_end
<1>1. TablesInv /\ end_address \in Nat
  BY EndAddress DEF StateInv
<1>2. CASE ~ banked
  <2>1. PICK ends : ends = [END__ |-> end_address]
    OBVIOUS
  <2>2. DOMAIN ends = EndNames /\ ends["END__"] = end_address /\ \A n \in DOMAIN ends : ends[n] \in Nat
    BY <1>1, <1>2, <2>1 DEF EndNames
  <2>3. Publishes(ends) /\ mem' = PatchFrom(mem, FileLabels')
    BY <1>2, <2>1 DEF resolve_all_forward_references
  <2> QED
    BY <1>1, <1>2, <2>2, <2>3, PublishesAll DEF EndNames
<1>3. CASE banked
  <2>1. PICK ends : ends = [END__ |-> code_end, __CEND |-> code_end, __DEND |-> data_end]
    OBVIOUS
  <2>2. code_end \in Nat /\ data_end \in Nat
    BY <1>3, BankEnds DEF StateInv
  <2>3. DOMAIN ends = EndNames /\ ends["END__"] = code_end /\ \A n \in DOMAIN ends : ends[n] \in Nat
    BY <1>3, <2>1, <2>2 DEF EndNames
  <2>4. Publishes(ends) /\ mem' = copies_code(PatchFrom(mem, FileLabels'))
    BY <1>3, <2>1 DEF resolve_all_forward_references24
  <2> QED
    BY <1>1, <1>3, <2>3, <2>4, PublishesAll DEF EndNames
<1> QED
  BY <1>2, <1>3

\* .DATACOPY leaves the words it does not copy over.
LEMMA CopyLeaves ==
  ASSUME NEW m, NEW x \in DOMAIN m, x \notin CopiedOver
  PROVE  copies_code(m)[x] = m[x]
BY DEF copies_code

LEMMA Ended ==
  ASSUME Inv, Next24, stop' \notin {"no", "error"}
  PROVE  NamesResolve' /\ EndPastWords'
<1>1. /\ QueueInv /\ StateInv /\ banked \in BOOLEAN
      /\ UNCHANGED <<banked, banks>>
      /\ UNCHANGED <<address, dataaddress, DataSegment, highwater, highaddress, Entry,
                     FWORDLIST, uses, defs, src>>
      /\ ~ banked => resolve_all_forward_references
      /\ banked => resolve_all_forward_references24
  BY Stops DEF Inv
<1>2. PICK known, globes : known = FileLabels' /\ globes = GlobeLabels'
  OBVIOUS
<1>3. PICK m : m = PatchFrom(mem, known)
  OBVIOUS
<1>4. /\ Published(known, globes)
      /\ ~ banked => mem' = m /\ globes[<<"END__", 0>>] = end_address
      /\ banked => mem' = copies_code(m) /\ globes[<<"END__", 0>>] = code_end
  BY <1>1, <1>2, <1>3, EndPublishes
<1>5. /\ UNCHANGED <<CodeSegment, CodeAddresses, codehighaddress, CodeLabelBanks, EntryBank,
                     EntryExplicit, LegacyEntry, entered, InitialDS, DataCopyBank>>
      /\ DefsInv /\ TablesInv /\ UsesInv /\ PlaceTyped
      /\ ~ banked => BelowHigh
      /\ banked => CodeInv /\ EntryInv /\ BanksInv
      /\ banked /\ ~ Moved => ApartInv
  BY <1>1 DEF StateInv, banks, code, entry
<1>6. /\ \A u : Lonely(u)' <=> Lonely(u)
      /\ \A name : (DefinedOnce(name)' <=> DefinedOnce(name)) /\ TheDef(name)' = TheDef(name)
      /\ Ends' = Ends /\ CopiedOver' = CopiedOver /\ starts_at' = starts_at
  BY <1>1, <1>5 DEF Lonely, DefinedOnce, TheDef, Ends, EndNames, CopiedOver, Copied, offset_of,
    physical, starts_at
<1>7. ASSUME NEW u \in uses, Lonely(u), ~ (banked /\ u.at \in CopiedOver)
      PROVE  /\ DefinedOnce(u.name) /\ Visible(TheDef(u.name), u) /\ u.name \notin Ends
                  => mem'[u.at] = Str2Word(TheDef(u.name).value)
             /\ u.name \in Ends /\ (\A d \in defs : d.name # u.name)
                  => mem'[u.at] = Str2Word(globes[u.name])
  <2>1. u.at \in DOMAIN m => mem'[u.at] = m[u.at]
    BY <1>1, <1>4, <1>7, CopyLeaves
  <2>2. ASSUME DefinedOnce(u.name), Visible(TheDef(u.name), u), u.name \notin Ends
        PROVE  u.at \in DOMAIN m /\ m[u.at] = Str2Word(TheDef(u.name).value)
    BY <1>3, <1>4, <1>5, <1>7, <2>2, MeansDefinition
  <2>3. ASSUME u.name \in Ends, \A d \in defs : d.name # u.name
        PROVE  u.at \in DOMAIN m /\ m[u.at] = Str2Word(globes[u.name])
    BY <1>3, <1>4, <1>5, <1>7, <2>3, MeansEnd
  <2> QED
    BY <2>1, <2>2, <2>3
<1>8. ASSUME banked, EntryExplicit, DefinedOnce(entered.name),
             IsCode(TheDef(entered.name)), Visible(TheDef(entered.name), entered)
      PROVE  starts_at = <<TheDef(entered.name).bank, TheDef(entered.name).value>>
  BY <1>5, <1>8, EntersIt
<1>9. NamesResolve'
  <2>1. \A u \in uses' : Lonely(u)' /\ ~ (banked' /\ u.at \in CopiedOver') =>
         /\ DefinedOnce(u.name)' /\ Visible(TheDef(u.name)', u) /\ u.name \notin Ends'
              => mem'[u.at] = Str2Word(TheDef(u.name)'.value)
         /\ u.name \in Ends' /\ (\A d \in defs' : d.name # u.name)
              => mem'[u.at] = Str2Word(GlobeLabels'[u.name])
    BY <1>1, <1>2, <1>6, <1>7
  <2>2. banked' /\ EntryExplicit' /\ DefinedOnce(entered.name)'
        /\ "code" \in DOMAIN TheDef(entered.name)' /\ TheDef(entered.name)'.code
        /\ Visible(TheDef(entered.name)', entered')
          => starts_at' = <<TheDef(entered.name)'.bank, TheDef(entered.name)'.value>>
    BY <1>1, <1>5, <1>6, <1>8 DEF IsCode, DefinedOnce, TheDef
  <2> QED
    BY <2>1, <2>2 DEF NamesResolve, Visible
<1>10. EndPastWords'
  <2>1. ~ banked => \A u \in uses : u.at < globes[<<"END__", 0>>]
    BY <1>4, <1>5, EndAddress DEF BelowHigh, UsesInv, PlaceTyped
  <2>2. banked => \A u \in uses : bank_of(u.at) = bank_of(Bigger(codehighaddress, address))
                    => offset_of(u.at) < globes[<<"END__", 0>>]
    BY <1>4, <1>5, BankEnds DEF UsesInv
  <2>3. banked /\ ~ Moved => \A u \in uses : Lonely(u)
    BY <1>5 DEF ApartInv
  <2> QED
    BY <1>1, <1>2, <1>5, <1>6, <2>1, <2>2, <2>3 DEF EndPastWords, bank_of, offset_of, Moved
<1> QED
  BY <1>9, <1>10

-----------------------------------------------------------------------------
(***************************************************************************)
(* The theorems.                                                           *)
(***************************************************************************)
Safe == Inv /\ NamesResolve /\ EndPastWords

LEMMA Safety == Spec24 => []Safe
<1>1. Init24 => Safe
  BY Starts DEF Safe, NamesResolve, EndPastWords
<1>2. Safe /\ [Next24]_<<vars, banked, banks>> => Safe'
  <2> SUFFICES ASSUME Safe, [Next24]_<<vars, banked, banks>> PROVE Safe'
    OBVIOUS
  <2>1. CASE Next24 /\ stop' = "no"
    <3>1. Inv'
      BY <2>1, Stops, GoesOn DEF Safe
    <3> QED
      BY <2>1, <3>1 DEF Safe, NamesResolve, EndPastWords
  <2>2. CASE Next24 /\ stop' = "error"
    <3>1. banked' \in BOOLEAN
      BY <2>2 DEF Next24, NextOne, NextBanked, Safe, Inv
    <3> QED
      BY <2>2, <3>1 DEF Safe, Inv, NamesResolve, EndPastWords
  <2>3. CASE Next24 /\ stop' \notin {"no", "error"}
    <3>1. NamesResolve' /\ EndPastWords'
      BY <2>3, Ended DEF Safe
    <3>2. stop' # "no" /\ banked' \in BOOLEAN
      BY <2>3 DEF Next24, NextOne, NextBanked, Safe, Inv
    <3> QED
      BY <3>1, <3>2 DEF Safe, Inv
  <2>4. CASE UNCHANGED <<vars, banked, banks>>
    <3>1. UNCHANGED <<vars, banked, banks>>
      BY <2>4
    <3>2. /\ place' = place /\ labels' = labels /\ refs' = refs /\ banks' = banks /\ banked' = banked
          /\ stop' = stop /\ src' = src /\ open' = open /\ stacks' = stacks
          /\ UNCHANGED <<code, CodeLabelBanks, entry, InitialDS, DataCopyBank>>
      BY <2>4 DEF vars, banks
    <3>3. Inv'
      <4>1. QueueInv => QueueInv'
        BY <3>2 DEF QueueInv, Opened, Frames, Commands, CommandsOf, Queued, Moved, Scoped, stacks
      <4>2. StateInv => StateInv'
        <5>1. Moved => Moved'
          BY <3>2 DEF Moved
        <5>2. StateInv => highaddress' \in Nat
          BY <3>2 DEF place, StateInv, PlaceTyped
        <5> QED
          BY <3>2, <5>1, <5>2, Idle DEF place
      <4> QED
        BY <3>2, <4>1, <4>2 DEF Safe, Inv
    <3>4. NamesResolve'
      <4>1. UNCHANGED <<uses, defs, mem, GlobeLabels, stop, banked, entered, EntryExplicit>>
        BY <3>2 DEF labels, refs, entry
      <4>2. /\ \A u : Lonely(u)' <=> Lonely(u)
            /\ \A name : (DefinedOnce(name)' <=> DefinedOnce(name)) /\ TheDef(name)' = TheDef(name)
            /\ Ends' = Ends /\ CopiedOver' = CopiedOver /\ starts_at' = starts_at
        BY <3>2, <4>1 DEF Lonely, DefinedOnce, TheDef, Ends, EndNames, CopiedOver, Copied, offset_of,
          physical, starts_at, code, entry, place
      <4>3. NamesResolve
        BY DEF Safe
      <4> QED
        BY <4>1, <4>2, <4>3 DEF NamesResolve, Visible, DefinedOnce, TheDef
    <3>5. EndPastWords'
      BY <3>2 DEF Safe, EndPastWords, Lonely, offset_of, bank_of, labels, refs, code, place
    <3> QED
      BY <3>3, <3>4, <3>5 DEF Safe
  <2> QED
    BY <2>1, <2>2, <2>3, <2>4
<1> QED
  BY <1>1, <1>2, PTL DEF Spec24

\* Whatever the program, its macros, the files it loads and the banks it uses, each
\* word that a reference alone is assembled to has the address of what the reference
\* may only mean, also when it was patched at the end, and the machine starts where
\* .ENTRY says.
THEOREM NamesResolved == Spec24 => []NamesResolve
BY Safety, PTL DEF Safe

\* Whatever .ORG, .DATA, .CODE and the files that are loaded do to the places of code
\* and data, END__ is past every word with a label, and a program that goes from bank
\* to bank and back puts no word over another.
THEOREM EndsPast == Spec24 => []EndPastWords
BY Safety, PTL DEF Safe

-----------------------------------------------------------------------------
(***************************************************************************)
(* The linker, for all libraries, programs and numbers of processes: a D   *)
(* directive selects the least set of functions that has what is asked for *)
(* and what these use; the loop that does it ends; what is loaded is the   *)
(* copy that was written, whatever other processes do, and that has every  *)
(* line that is needed, once and in its order; and no process that ends    *)
(* leaves its temporary files.                                             *)
(***************************************************************************)
\* The maps of the processes.
Maps ==
  /\ DOMAIN pc = Procs /\ DOMAIN lib = Procs /\ DOMAIN temp = Procs
  /\ DOMAIN UseRequested = Procs
  /\ DOMAIN selected = Procs /\ DOMAIN pending = Procs
  /\ DOMAIN DynamicLibraryTempFiles = Procs

\* Half way: what is selected is needed, and what is missing from it is pending.
Resolving(u, roots, chosen, left) ==
  /\ chosen \subseteq DOMAIN u
  /\ roots \cap DOMAIN u \subseteq chosen \cup left
  /\ \A f \in chosen : u[f] \cap DOMAIN u \subseteq chosen \cup left
  /\ \A S \in SUBSET DOMAIN u :
       roots \cap DOMAIN u \subseteq S /\ Closed(S, u)
         => (chosen \cup left) \cap DOMAIN u \subseteq S

ResolvingInv ==
  \A p \in Procs :
    /\ pc[p] \in {"resolve", "written"} =>
         Resolving(UsesOf(lib[p]), UseRequested[p], selected[p], pending[p])
    /\ pc[p] = "written" => pending[p] = {}

\* The loop starts half way, as everything that is asked for is pending.
LEMMA ResolvingStarts ==
  ASSUME NEW u, NEW roots
  PROVE  Resolving(u, roots, {}, roots)
BY DEF Resolving

\* A turn that selects a function leaves what it uses pending.
LEMMA ResolvingSelects ==
  ASSUME NEW u, NEW roots, NEW chosen, NEW left, NEW f \in left,
         Resolving(u, roots, chosen, left), f \in DOMAIN u
  PROVE  Resolving(u, roots, chosen \cup {f}, (left \ {f}) \cup (u[f] \ (chosen \cup {f})))
<1> DEFINE more == chosen \cup {f}
           rest == (left \ {f}) \cup (u[f] \ more)
<1>1. more \subseteq DOMAIN u
  BY DEF Resolving
<1>2. roots \cap DOMAIN u \subseteq more \cup rest
  BY DEF Resolving
<1>3. \A g \in more : u[g] \cap DOMAIN u \subseteq more \cup rest
  BY DEF Resolving
<1>4. ASSUME NEW S \in SUBSET DOMAIN u, roots \cap DOMAIN u \subseteq S, Closed(S, u)
      PROVE  (more \cup rest) \cap DOMAIN u \subseteq S
  <2>1. (chosen \cup left) \cap DOMAIN u \subseteq S
    BY <1>4 DEF Resolving
  <2>2. u[f] \cap DOMAIN u \subseteq S
    BY <1>4, <2>1 DEF Closed
  <2> QED
    BY <2>1, <2>2
<1> QED
  BY <1>1, <1>2, <1>3, <1>4 DEF Resolving

\* A turn that drops a name has it selected already, or it is no function.
LEMMA ResolvingDrops ==
  ASSUME NEW u, NEW roots, NEW chosen, NEW left, NEW f \in left,
         Resolving(u, roots, chosen, left), f \notin DOMAIN u \/ f \in chosen
  PROVE  Resolving(u, roots, chosen, left \ {f})
<1>1. roots \cap DOMAIN u \subseteq chosen \cup (left \ {f})
  BY DEF Resolving
<1>2. \A g \in chosen : u[g] \cap DOMAIN u \subseteq chosen \cup (left \ {f})
  BY DEF Resolving
<1> QED
  BY <1>1, <1>2 DEF Resolving

\* With nothing pending, what is selected is what is needed.
LEMMA ResolvingEnds ==
  ASSUME NEW u, NEW roots, NEW chosen, Resolving(u, roots, chosen, {})
  PROVE  chosen = Needed(u, roots)
<1>1. chosen \subseteq Needed(u, roots)
  BY DEF Resolving, Needed
<1>2. chosen \in SUBSET DOMAIN u /\ roots \cap DOMAIN u \subseteq chosen /\ Closed(chosen, u)
  BY DEF Resolving, Closed
<1>3. Needed(u, roots) \subseteq chosen
  BY <1>2 DEF Needed
<1> QED
  BY <1>1, <1>3

-----------------------------------------------------------------------------
LEMMA InitMaps == LinkInit => Maps /\ ResolvingInv
BY DEF LinkInit, Maps, ResolvingInv

LEMMA NextMaps == Maps /\ [LinkNext]_linkvars => Maps'
<1> SUFFICES ASSUME Maps, [LinkNext]_linkvars PROVE Maps'
  OBVIOUS
<1>1. ASSUME NEW p \in Procs, Step(p) PROVE Maps'
  BY <1>1 DEF Maps, Step, Use, D, PruneOldDynamicLibraries, CreateTempFilename, NoteTempFile,
    ReadLibrary, StopsReading, ResolveUses, WriteLibrary, loadfile, FilterLibraryCleanUp,
    EndOfProgram, FilterLibraryExitCleanUp, Kill, Goto, resolving, state
<1>2. CASE UNCHANGED linkvars
  BY <1>2 DEF Maps, linkvars, resolving, state
<1> QED
  BY <1>1, <1>2 DEF LinkNext

\* What half way is, of one process.
ResolvingOf(p) ==
  /\ pc[p] \in {"resolve", "written"} =>
       Resolving(UsesOf(lib[p]), UseRequested[p], selected[p], pending[p])
  /\ pc[p] = "written" => pending[p] = {}

\* A process that keeps its part of the state, or is neither in the loop nor past it,
\* stays as it was.
LEMMA ResolvingKept ==
  ASSUME NEW p \in Procs, ResolvingOf(p), libs' = libs,
         \/ pc'[p] \notin {"resolve", "written"}
         \/ /\ pc'[p] = pc[p] /\ lib'[p] = lib[p] /\ UseRequested'[p] = UseRequested[p]
            /\ selected'[p] = selected[p] /\ pending'[p] = pending[p]
  PROVE  ResolvingOf(p)'
BY DEF ResolvingOf, UsesOf

LEMMA ResolvingTurn ==
  ASSUME Maps, NEW p \in Procs, ResolvingOf(p), ResolveUses(p)
  PROVE  ResolvingOf(p)'
<1> DEFINE u == UsesOf(lib[p])
<1>1. PICK name \in pending[p] :
        LET known == name \in DOMAIN u /\ name \notin selected[p]
        IN  /\ selected' = [selected EXCEPT ![p] = IF known THEN @ \cup {name} ELSE @]
            /\ pending' = [pending EXCEPT ![p] =
                 (@ \ {name}) \cup (IF known THEN u[name] \ selected'[p] ELSE {})]
  BY DEF ResolveUses
<1>2. /\ pc[p] = "resolve" /\ pc'[p] = "resolve" /\ UsesOf(lib[p])' = u
      /\ UseRequested'[p] = UseRequested[p]
  BY DEF ResolveUses, state, UsesOf
<1>3. Resolving(u, UseRequested[p], selected[p], pending[p])
  BY <1>2 DEF ResolvingOf
<1>4. CASE name \in DOMAIN u /\ name \notin selected[p]
  <2>1. selected'[p] = selected[p] \cup {name}
    BY <1>1, <1>4 DEF Maps
  <2>2. pending'[p] = (pending[p] \ {name}) \cup (u[name] \ (selected[p] \cup {name}))
    BY <1>1, <1>4, <2>1 DEF Maps
  <2>3. Resolving(u, UseRequested[p], selected'[p], pending'[p])
    BY <1>3, <1>4, <2>1, <2>2, ResolvingSelects
  <2> QED
    BY <1>2, <2>3 DEF ResolvingOf
<1>5. CASE ~ (name \in DOMAIN u /\ name \notin selected[p])
  <2>1. selected'[p] = selected[p] /\ pending'[p] = pending[p] \ {name}
    BY <1>1, <1>5 DEF Maps
  <2>2. Resolving(u, UseRequested[p], selected'[p], pending'[p])
    BY <1>3, <1>5, <2>1, ResolvingDrops
  <2> QED
    BY <1>2, <2>2 DEF ResolvingOf
<1> QED
  BY <1>4, <1>5

LEMMA ResolvingStep ==
  ASSUME Maps, ResolvingInv, NEW p \in Procs, Step(p)
  PROVE  ResolvingInv'
<1> SUFFICES ASSUME NEW q \in Procs PROVE ResolvingOf(q)'
  BY DEF ResolvingInv, ResolvingOf
<1>0. ResolvingOf(q)
  BY DEF ResolvingInv, ResolvingOf
<1>1. CASE q # p
  <2>1. /\ libs' = libs /\ pc'[q] = pc[q] /\ lib'[q] = lib[q]
        /\ UseRequested'[q] = UseRequested[q]
        /\ selected'[q] = selected[q] /\ pending'[q] = pending[q]
    BY <1>1 DEF Maps, Step, Use, D, PruneOldDynamicLibraries, CreateTempFilename, NoteTempFile,
      ReadLibrary, StopsReading, ResolveUses, WriteLibrary, loadfile, FilterLibraryCleanUp,
      EndOfProgram, FilterLibraryExitCleanUp, Kill, Goto, resolving, state
  <2> QED
    BY <1>0, <2>1, ResolvingKept
<1>2. CASE q = p
  <2>1. CASE ResolveUses(p)
    BY <1>0, <1>2, <2>1, ResolvingTurn
  <2>2. CASE ReadLibrary(p)
    <3>1. /\ pc'[p] = "resolve" /\ selected'[p] = {} /\ pending'[p] = UseRequested'[p]
      BY <2>2 DEF ReadLibrary, Goto, Maps
    <3>2. Resolving(UsesOf(lib[p])', UseRequested'[p], {}, UseRequested'[p])
      BY ResolvingStarts
    <3> QED
      BY <1>2, <3>1, <3>2 DEF ResolvingOf
  <2>3. CASE WriteLibrary(p)
    <3>1. /\ pc[p] = "resolve" /\ pc'[p] = "written" /\ pending[p] = {}
          /\ UNCHANGED <<libs, lib, UseRequested, selected, pending>>
      BY <2>3 DEF WriteLibrary, Goto, Maps, resolving
    <3> QED
      BY <1>0, <1>2, <3>1 DEF ResolvingOf, UsesOf
  <2>4. CASE ~ (ResolveUses(p) \/ ReadLibrary(p) \/ WriteLibrary(p))
    <3>1. libs' = libs /\ pc'[p] \notin {"resolve", "written"}
      BY <2>4 DEF Maps, Step, Use, D, PruneOldDynamicLibraries, CreateTempFilename, NoteTempFile,
        StopsReading, loadfile, FilterLibraryCleanUp, EndOfProgram, FilterLibraryExitCleanUp,
        Kill, Goto
    <3> QED
      BY <1>0, <1>2, <3>1, ResolvingKept
  <2> QED
    BY <2>1, <2>2, <2>3, <2>4
<1> QED
  BY <1>1, <1>2

LEMMA NextResolving == Maps /\ ResolvingInv /\ [LinkNext]_linkvars => ResolvingInv'
<1> SUFFICES ASSUME Maps, ResolvingInv, [LinkNext]_linkvars PROVE ResolvingInv'
  OBVIOUS
<1>1. CASE UNCHANGED linkvars
  BY <1>1 DEF ResolvingInv, UsesOf, linkvars, resolving, state
<1> QED
  BY <1>1, ResolvingStep DEF LinkNext

\* The copy of a library has the least set of its functions that has those asked for
\* and is closed under what they use (FilterLibrary and ResolveUses), in whatever order
\* the names are taken.
THEOREM SelectsNeeded == LinkSpec => []LinksNeeded
<1>1. LinkInit => Maps /\ ResolvingInv
  BY InitMaps
<1>2. Maps /\ ResolvingInv /\ [LinkNext]_linkvars => (Maps /\ ResolvingInv)'
  BY NextMaps, NextResolving
<1>3. Maps /\ ResolvingInv => LinksNeeded
  BY ResolvingEnds DEF ResolvingInv, LinksNeeded
<1> QED
  BY <1>1, <1>2, <1>3, PTL DEF LinkSpec


\* Every turn of the loop of ResolveUses selects one more function or leaves fewer
\* names, so that it ends for every library.
THEOREM TurnsEnd == LinkSpec => LoopEnds
<1> DEFINE Turn(p) ==
      pc[p] = "resolve" /\ <<selected[p], pending[p]>>' # <<selected[p], pending[p]>> =>
        \/ selected[p] \subseteq selected'[p] /\ selected[p] # selected'[p]
        \/ selected[p] = selected'[p] /\ pending'[p] \subseteq pending[p]
<1>1. ASSUME Maps, [LinkNext]_linkvars, NEW p \in Procs PROVE Turn(p)
  <2>1. CASE ResolveUses(p)
    <3>1. PICK name \in pending[p] :
            LET u == UsesOf(lib[p])
                known == name \in DOMAIN u /\ name \notin selected[p]
            IN  /\ selected' = [selected EXCEPT ![p] = IF known THEN @ \cup {name} ELSE @]
                /\ pending' = [pending EXCEPT ![p] =
                     (@ \ {name}) \cup (IF known THEN u[name] \ selected'[p] ELSE {})]
      BY <2>1 DEF ResolveUses
    <3>2. CASE name \in DOMAIN UsesOf(lib[p]) /\ name \notin selected[p]
      <4>1. selected'[p] = selected[p] \cup {name}
        BY <1>1, <3>1, <3>2 DEF Maps
      <4> QED
        BY <3>2, <4>1
    <3>3. CASE ~ (name \in DOMAIN UsesOf(lib[p]) /\ name \notin selected[p])
      <4>1. selected'[p] = selected[p] /\ pending'[p] = pending[p] \ {name}
        BY <1>1, <3>1, <3>3 DEF Maps
      <4> QED
        BY <4>1
    <3> QED
      BY <3>2, <3>3
  <2>2. ASSUME NEW q \in Procs, Step(q), ~ ResolveUses(p), pc[p] = "resolve"
        PROVE  selected'[p] = selected[p] /\ pending'[p] = pending[p]
    BY <1>1, <2>2 DEF Maps, Step, Use, D, PruneOldDynamicLibraries, CreateTempFilename,
      NoteTempFile, ReadLibrary, StopsReading, ResolveUses, WriteLibrary, loadfile,
      FilterLibraryCleanUp, EndOfProgram, FilterLibraryExitCleanUp, Kill, Goto, resolving, state
  <2>3. CASE UNCHANGED linkvars
    BY <2>3 DEF linkvars, resolving
  <2> QED
    BY <1>1, <2>1, <2>2, <2>3 DEF LinkNext
<1>2. Maps /\ [LinkNext]_linkvars => [\A p \in Procs : Turn(p)]_linkvars
  BY <1>1
<1>3. LinkInit => Maps
  BY InitMaps
<1> QED
  BY <1>2, <1>3, NextMaps, PTL DEF LinkSpec, LoopEnds

-----------------------------------------------------------------------------
\* From mkstemp on a temporary file belongs to a process, which has it in its list
\* when it goes on, and its name is not given again.
WithFile == {"made", "scan", "resolve", "written", "loaded", "failed"}

FilesInv ==
  /\ \A f \in DOMAIN files :
       /\ owner(f) \in Procs
       /\ \/ keep[owner(f)]
          \/ pc[owner(f)] = "killed"
          \/ pc[owner(f)] # "done" /\ f \in DynamicLibraryTempFiles[owner(f)]
          \/ pc[owner(f)] = "made" /\ f = temp[owner(f)]
  /\ \A p \in Procs :
       /\ \A f \in DynamicLibraryTempFiles[p] : owner(f) = p
       /\ pc[p] \in WithFile => owner(temp[p]) = p
       /\ pc[p] \in WithFile \ {"made"} => temp[p] \in DynamicLibraryTempFiles[p]
       /\ pc[p] \in WithFile \ {"failed"} => temp[p] \in DOMAIN files \/ p \in lost
       /\ pc[p] = "failed" => p \in lost

LEMMA InitFiles == LinkInit => FilesInv
BY DEF LinkInit, FilesInv, WithFile

LEMMA NextFiles ==
  ASSUME Maps, FilesInv, NEW p \in Procs, Step(p)
  PROVE  FilesInv'
<1> USE DEF WithFile, owner, Goto, Maps
<1>1. CASE Use(p)
  BY <1>1 DEF Use, FilesInv
<1>2. CASE D(p)
  BY <1>2 DEF D, FilesInv, resolving
<1>3. CASE PruneOldDynamicLibraries(p)
  BY <1>3 DEF PruneOldDynamicLibraries, FilesInv, Removed, resolving
<1>4. CASE CreateTempFilename(p)
  BY <1>4 DEF CreateTempFilename, FilesInv, Written, resolving
<1>5. CASE NoteTempFile(p)
  BY <1>5 DEF NoteTempFile, FilesInv, resolving
<1>6. CASE ReadLibrary(p)
  BY <1>6 DEF ReadLibrary, FilesInv
<1>7. CASE StopsReading(p)
  BY <1>7 DEF StopsReading, FilesInv, resolving
<1>8. CASE ResolveUses(p)
  BY <1>8 DEF ResolveUses, FilesInv, state
<1>9. CASE WriteLibrary(p)
  BY <1>9 DEF WriteLibrary, FilesInv, Written, resolving
<1>10. CASE loadfile(p)
  BY <1>10 DEF loadfile, FilesInv, resolving
<1>11. CASE FilterLibraryCleanUp(p)
  BY <1>11 DEF FilterLibraryCleanUp, FilesInv, Removed, Forgets, resolving
<1>12. CASE EndOfProgram(p)
  BY <1>12 DEF EndOfProgram, FilesInv, resolving
<1>13. CASE FilterLibraryExitCleanUp(p)
  BY <1>13 DEF FilterLibraryExitCleanUp, FilesInv, resolving
<1>14. CASE Kill(p)
  BY <1>14 DEF Kill, FilesInv, resolving
<1> QED
  BY <1>1, <1>2, <1>3, <1>4, <1>5, <1>6, <1>7, <1>8, <1>9, <1>10, <1>11, <1>12, <1>13, <1>14
  DEF Step

LEMMA FilesInvariant == LinkSpec => [](Maps /\ FilesInv)
<1>1. LinkInit => Maps /\ FilesInv
  BY InitMaps, InitFiles
<1>2. Maps /\ FilesInv /\ [LinkNext]_linkvars => (Maps /\ FilesInv)'
  <2>1. CASE UNCHANGED linkvars
    BY <2>1 DEF Maps, FilesInv, linkvars, state, resolving
  <2> QED
    BY <2>1, NextMaps, NextFiles DEF LinkNext
<1> QED
  BY <1>1, <1>2, PTL DEF LinkSpec

\* However a process ends, its temporary files are gone, unless it was killed or is to
\* keep them (FilterLibraryCleanUp, and FilterLibraryExitCleanUp at exit).
THEOREM EndedLeaveNothing == LinkSpec => []NothingLeft
<1>1. Maps /\ FilesInv => NothingLeft
  BY DEF Maps, FilesInv, NothingLeft
<1> QED
  BY <1>1, FilesInvariant, PTL

\* A process misses its copy only when another one has pruned it.
THEOREM AloneFinds == LinkSpec => []FindsItsCopy
<1>1. Maps /\ FilesInv => FindsItsCopy
  BY DEF FilesInv, FindsItsCopy
<1> QED
  BY <1>1, FilesInvariant, PTL

-----------------------------------------------------------------------------
(***************************************************************************)
(* What is loaded.                                                         *)
(***************************************************************************)
\* The copy of a library for a program that asks for these names.
CopyOf(l, roots) == Filtered(Scan(libs[l]), Needed(UsesOf(l), roots))

\* A copy that is written and still there is what WriteLibrary has put into it, and what
\* has been loaded is the copy for what was asked for.
LoadedOf(p) ==
  /\ \E S : linked[p] \in Seq(S)
  /\ pc[p] = "prune" \/ pc[p] \in WithFile => lib[p] \in DOMAIN libs
  /\ pc[p] = "written" /\ temp[p] \in DOMAIN files =>
       files[temp[p]] = Filtered(Scan(libs[lib[p]]), selected[p])
  /\ pc[p] = "loaded" =>
       /\ linked[p] # <<>> /\ Last(linked[p]).lib \in DOMAIN libs
       /\ Last(linked[p]).text = CopyOf(Last(linked[p]).lib, Last(linked[p]).asked)

LoadedInv == libs \in Libraries /\ DOMAIN linked = Procs /\ \A p \in Procs : LoadedOf(p)

\* At first nothing is loaded.
LEMMA InitLoaded == LinkInit => LoadedInv
<1> SUFFICES ASSUME LinkInit PROVE LoadedInv
  OBVIOUS
<1>1. DOMAIN linked = Procs /\ \A p \in Procs : linked[p] = <<>>
  BY DEF LinkInit
<1>2. <<>> \in Seq({})
  OBVIOUS
<1>3. \A p \in Procs : pc[p] \notin {"prune"} \cup WithFile
  BY DEF LinkInit, WithFile
<1>4. libs \in Libraries
  BY DEF LinkInit
<1> QED
  BY <1>1, <1>2, <1>3, <1>4 DEF LoadedInv, LoadedOf, WithFile

\* What another process does to the directory leaves a copy as it is, or removes it.
LEMMA OthersKeep ==
  ASSUME Maps, FilesInv, DOMAIN linked = Procs,
         NEW p \in Procs, NEW q \in Procs, q # p, Step(p), LoadedOf(q)
  PROVE  LoadedOf(q)'
<1>1. /\ libs' = libs /\ pc'[q] = pc[q] /\ lib'[q] = lib[q] /\ temp'[q] = temp[q]
      /\ selected'[q] = selected[q] /\ linked'[q] = linked[q]
  BY DEF Maps, Step, Use, D, PruneOldDynamicLibraries, CreateTempFilename, NoteTempFile,
    ReadLibrary, StopsReading, ResolveUses, WriteLibrary, loadfile, FilterLibraryCleanUp,
    EndOfProgram, FilterLibraryExitCleanUp, Kill, Goto, resolving, state
<1>2. ASSUME pc[q] = "written", temp[q] \in DOMAIN files'
      PROVE  temp[q] \in DOMAIN files /\ files'[temp[q]] = files[temp[q]]
  <2>1. owner(temp[q]) = q
    BY <1>2 DEF FilesInv, WithFile
  <2>2. CASE CreateTempFilename(p)
    <3> DEFINE f == <<lib[p], p, lines[p]>>
    <3>1. owner(f) = p /\ files' = Written(f, <<>>)
      BY <2>2 DEF owner, CreateTempFilename
    <3> QED
      BY <1>2, <2>1, <3>1 DEF Written
  <2>3. CASE WriteLibrary(p)
    <3>1. owner(temp[p]) = p
      BY <2>3 DEF FilesInv, WithFile, WriteLibrary, Goto
    <3> QED
      BY <1>2, <2>1, <2>3, <3>1 DEF Written, WriteLibrary
  <2>4. CASE ~ (CreateTempFilename(p) \/ WriteLibrary(p))
    <3>1. files' = files \/ \E S : files' = [g \in DOMAIN files \ S |-> files[g]]
      BY <2>4 DEF Step, Use, D, PruneOldDynamicLibraries, NoteTempFile, ReadLibrary, StopsReading,
        ResolveUses, loadfile, FilterLibraryCleanUp, EndOfProgram, FilterLibraryExitCleanUp, Kill,
        Removed
    <3> QED
      BY <1>2, <3>1
  <2> QED
    BY <2>2, <2>3, <2>4
<1>3. CopyOf(Last(linked[q]).lib, Last(linked[q]).asked)' = CopyOf(Last(linked[q]).lib, Last(linked[q]).asked)
  BY <1>1 DEF CopyOf, UsesOf
<1> QED
  BY <1>1, <1>2, <1>3 DEF LoadedOf

\* Appending keeps a sequence one, and its last element is the new one.
LEMMA AppendLast ==
  ASSUME NEW S, NEW s \in Seq(S), NEW x
  PROVE  /\ Append(s, x) \in Seq(S \cup {x})
         /\ Append(s, x) # <<>> /\ Last(Append(s, x)) = x
<1>1. s \in Seq(S \cup {x})
  OBVIOUS
<1> QED
  BY <1>1 DEF Last

\* A process writes the copy for what it selects, and loads what is there.
LEMMA OwnLoaded ==
  ASSUME Maps, FilesInv, ResolvingInv, DOMAIN linked = Procs,
         NEW p \in Procs, Step(p), LoadedOf(p)
  PROVE  LoadedOf(p)'
<1>1. CASE loadfile(p)
  <2>1. libs' = libs /\ files' = files /\ temp' = temp /\ pc[p] = "written"
    BY <1>1 DEF loadfile
  <2>2. CASE temp[p] \notin DOMAIN files
    BY <1>1, <2>1, <2>2 DEF loadfile, LoadedOf, Maps, WithFile
  <2>3. CASE temp[p] \in DOMAIN files
    <3> DEFINE k == [lib |-> lib[p], text |-> files[temp[p]], asked |-> UseRequested[p]]
    <3>1. pc'[p] = "loaded" /\ linked'[p] = Append(linked[p], k)
      BY <1>1, <2>3 DEF loadfile, Maps
    <3>2. PICK S : linked[p] \in Seq(S)
      BY DEF LoadedOf
    <3>3. /\ Append(linked[p], k) \in Seq(S \cup {k}) /\ Append(linked[p], k) # <<>>
          /\ Last(Append(linked[p], k)) = k
      BY <3>2, AppendLast
    <3>4. selected[p] = Needed(UsesOf(lib[p]), UseRequested[p])
      BY <2>1, ResolvingEnds DEF ResolvingInv
    <3>5. k.text = CopyOf(k.lib, k.asked) /\ k.lib \in DOMAIN libs
      BY <2>1, <2>3, <3>4 DEF LoadedOf, CopyOf, WithFile
    <3>6. lib' = lib
      BY <1>1 DEF loadfile
    <3> QED
      BY <2>1, <3>1, <3>3, <3>5, <3>6 DEF LoadedOf, CopyOf, UsesOf
  <2> QED
    BY <2>2, <2>3
<1>2. CASE WriteLibrary(p)
  <2>1. /\ pc'[p] = "written" /\ libs' = libs /\ lib' = lib /\ temp' = temp
        /\ selected' = selected /\ linked' = linked
        /\ files' = Written(temp[p], Filtered(Scan(libs[lib[p]]), selected[p]))
    BY <1>2 DEF WriteLibrary, Goto, Maps, resolving
  <2>2. files'[temp[p]] = Filtered(Scan(libs[lib[p]]), selected[p])
    BY <2>1 DEF Written
  <2>3. lib[p] \in DOMAIN libs
    BY <1>2 DEF LoadedOf, WriteLibrary, Goto, WithFile
  <2> QED
    BY <2>1, <2>2, <2>3 DEF LoadedOf
<1>3. CASE ~ (loadfile(p) \/ WriteLibrary(p))
  <2>1. linked' = linked /\ libs' = libs /\ pc'[p] \notin {"written", "loaded"}
    BY <1>3 DEF Maps, FilesInv, Step, Use, D, PruneOldDynamicLibraries, CreateTempFilename,
      NoteTempFile, ReadLibrary, StopsReading, ResolveUses, FilterLibraryCleanUp, EndOfProgram,
      FilterLibraryExitCleanUp, Kill, Goto, resolving, state
  <2>2. pc'[p] = "prune" \/ pc'[p] \in WithFile => lib'[p] \in DOMAIN libs
    BY <1>3 DEF LoadedOf, Maps, WithFile, Step, Use, D, PruneOldDynamicLibraries,
      CreateTempFilename, NoteTempFile, ReadLibrary, StopsReading, ResolveUses,
      FilterLibraryCleanUp, EndOfProgram, FilterLibraryExitCleanUp, Kill, Goto, resolving, state
  <2> QED
    BY <2>1, <2>2 DEF LoadedOf
<1> QED
  BY <1>1, <1>2, <1>3

\* So every step keeps what is said of copies and of what is loaded.
LEMMA NextLoaded ==
  Maps /\ FilesInv /\ ResolvingInv /\ LoadedInv /\ [LinkNext]_linkvars => LoadedInv'
<1> SUFFICES ASSUME Maps, FilesInv, ResolvingInv, LoadedInv, [LinkNext]_linkvars PROVE LoadedInv'
  OBVIOUS
<1>1. CASE UNCHANGED linkvars
  BY <1>1 DEF LoadedInv, LoadedOf, CopyOf, UsesOf, linkvars, resolving, state
<1>2. ASSUME NEW p \in Procs, Step(p) PROVE LoadedInv'
  <2>1. DOMAIN linked' = Procs /\ libs' = libs
    BY <1>2 DEF LoadedInv, Step, Use, D, PruneOldDynamicLibraries, CreateTempFilename, NoteTempFile,
      ReadLibrary, StopsReading, ResolveUses, WriteLibrary, loadfile, FilterLibraryCleanUp,
      EndOfProgram, FilterLibraryExitCleanUp, Kill, resolving, state
  <2>2. \A q \in Procs : LoadedOf(q)'
    BY <1>2, OthersKeep, OwnLoaded DEF LoadedInv
  <2> QED
    BY <2>1, <2>2 DEF LoadedInv
<1> QED
  BY <1>1, <1>2 DEF LinkNext

\* What a process has loaded is the copy of the library for what it had asked for by then,
\* as it wrote it: whatever other processes remove, make and write meanwhile.
LoadsItsCopy ==
  \A p \in Procs : pc[p] = "loaded" =>
    Last(linked[p]).text = CopyOf(Last(linked[p]).lib, Last(linked[p]).asked)

THEOREM CopiesIntact == LinkSpec => []LoadsItsCopy
<1>1. LinkInit => LoadedInv /\ ResolvingInv
  BY InitLoaded, InitMaps
<1>2. LoadedInv => LoadsItsCopy
  BY DEF LoadedInv, LoadedOf, LoadsItsCopy
<1> QED
  BY <1>1, <1>2, NextLoaded, NextResolving, FilesInvariant, PTL DEF LinkSpec

-----------------------------------------------------------------------------
(***************************************************************************)
(* What reading a library and writing its copy compute, for texts of any   *)
(* length: by induction over the lines read, with a set of numbers for     *)
(* which they are right that goes on from each number to the next.         *)
(***************************************************************************)
\* The function read of Scan: what is known after each line.
Reading(text, f, n) ==
  f = [i \in 0 .. n |-> IF i = 0 THEN NothingRead ELSE ReadLine(f[i - 1], text[i], i)]

\* There is such a function.
LEMMA ReadingExists ==
  ASSUME NEW text, NEW n \in Nat
  PROVE  \E f : Reading(text, f, n)
<1> DEFINE T == {k \in Nat : \E f : Reading(text, f, k)}
<1>1. 0 \in T
  <2>1. Reading(text, [i \in 0 .. 0 |-> NothingRead], 0)
    BY DEF Reading
  <2> QED
    BY <2>1
<1>2. ASSUME NEW k \in 0 .. n, k # n, k \in T PROVE k + 1 \in T
  <2>1. PICK g : Reading(text, g, k)
    BY <1>2
  <2> DEFINE f == [i \in 0 .. k + 1 |-> IF i = k + 1 THEN ReadLine(g[k], text[k + 1], k + 1) ELSE g[i]]
             val(h, i) == IF i = 0 THEN NothingRead ELSE ReadLine(h[i - 1], text[i], i)
  <2>2. \A i \in 0 .. k + 1 : f[i] = val(f, i)
    <3>1. ASSUME NEW i \in 0 .. k + 1 PROVE f[i] = val(f, i)
      <4>1. CASE i = k + 1
        <5>1. i # 0 /\ i - 1 = k /\ k \in 0 .. k + 1 /\ k # k + 1
          BY <4>1
        <5>2. f[i - 1] = g[k]
          BY <5>1
        <5> QED
          BY <4>1, <5>1, <5>2
      <4>2. CASE i # k + 1
        <5>1. i \in 0 .. k /\ f[i] = g[i] /\ g[i] = val(g, i)
          BY <2>1, <4>2 DEF Reading
        <5>2. i # 0 => i - 1 \in 0 .. k + 1 /\ i - 1 # k + 1
          BY <4>2
        <5>3. i # 0 => f[i - 1] = g[i - 1]
          BY <5>2
        <5> QED
          BY <5>1, <5>3
      <4> QED
        BY <4>1, <4>2
    <3> QED
      BY <3>1
  <2>3. f = [i \in 0 .. k + 1 |-> f[i]]
    OBVIOUS
  <2> HIDE DEF f
  <2>4. Reading(text, f, k + 1)
    BY <2>2, <2>3 DEF Reading
  <2> QED
    BY <2>4
<1> HIDE DEF T
<1>3. n \in T
  BY <1>1, <1>2, CountsUp
<1> QED
  BY <1>3 DEF T

\* And Scan takes its value at the last line.
LEMMA ScanIs ==
  ASSUME NEW text, Len(text) \in Nat
  PROVE  \E f : Reading(text, f, Len(text)) /\ Scan(text) = flush_global(f[Len(text)])
<1> DEFINE f == CHOOSE f : Reading(text, f, Len(text))
<1>1. Scan(text) = flush_global(f[Len(text)])
  BY DEF Scan, Reading
<1>2. Reading(text, f, Len(text))
  BY ReadingExists
<1> HIDE DEF f
<1> QED
  BY <1>1, <1>2
-----------------------------------------------------------------------------
\* The function flatten of FlattenSeq.
Joining(s, f, n) ==
  f = [i \in 1 .. n |-> IF i = 1 THEN s[i] ELSE f[i - 1] \o s[i]]

\* There is such a function.
LEMMA JoiningExists ==
  ASSUME NEW s, NEW n \in Nat
  PROVE  \E f : Joining(s, f, n)
<1> DEFINE T == {k \in Nat : \E f : Joining(s, f, k)}
<1>1. 0 \in T
  <2>1. Joining(s, [i \in 1 .. 0 |-> s[i]], 0)
    BY DEF Joining
  <2> QED
    BY <2>1
<1>2. ASSUME NEW k \in 0 .. n, k # n, k \in T PROVE k + 1 \in T
  <2>1. PICK g : Joining(s, g, k)
    BY <1>2
  <2> DEFINE val(h, i) == IF i = 1 THEN s[i] ELSE h[i - 1] \o s[i]
             f == [i \in 1 .. k + 1 |-> IF i = k + 1 THEN val(g, i) ELSE g[i]]
  <2>2. ASSUME NEW i \in 1 .. k + 1 PROVE f[i] = val(f, i)
    <3>1. i # 1 => i - 1 \in 1 .. k + 1 /\ i - 1 # k + 1
      OBVIOUS
    <3>2. i # 1 => f[i - 1] = g[i - 1]
      BY <3>1
    <3>3. i # k + 1 => i \in 1 .. k
      OBVIOUS
    <3>4. i # k + 1 => g[i] = val(g, i)
      BY <2>1, <3>3 DEF Joining
    <3> QED
      BY <3>2, <3>4
  <2>3. f = [i \in 1 .. k + 1 |-> f[i]]
    OBVIOUS
  <2> HIDE DEF f
  <2>4. Joining(s, f, k + 1)
    BY <2>2, <2>3 DEF Joining
  <2> QED
    BY <2>4
<1> HIDE DEF T
<1>3. n \in T
  BY <1>1, <1>2, CountsUp
<1> QED
  BY <1>3 DEF T

\* And FlattenSeq is its value at the last one.
LEMMA FlattenIs ==
  ASSUME NEW s, Len(s) \in Nat, Len(s) # 0
  PROVE  \E f : Joining(s, f, Len(s)) /\ FlattenSeq(s) = f[Len(s)]
<1> DEFINE f == CHOOSE f : Joining(s, f, Len(s))
<1>1. FlattenSeq(s) = f[Len(s)]
  BY DEF FlattenSeq, Joining
<1>2. Joining(s, f, Len(s))
  BY JoiningExists
<1> HIDE DEF f
<1> QED
  BY <1>1, <1>2

\* It makes sequences of sequences, and depends on no element above.
LEMMA JoiningTyped ==
  ASSUME NEW S, NEW n \in Nat, NEW s, \A i \in 1 .. n : s[i] \in Seq(S),
         NEW f, Joining(s, f, n), NEW i \in 1 .. n
  PROVE  f[i] \in Seq(S)
<1> DEFINE T == {k \in 0 .. n : k # 0 => f[k] \in Seq(S)}
<1>1. 0 \in T
  OBVIOUS
<1>2. ASSUME NEW k \in 0 .. n, k # n, k \in T PROVE k + 1 \in T
  <2>1. k + 1 \in 1 .. n /\ k + 1 \in 0 .. n /\ (k + 1) - 1 = k
    BY <1>2
  <2>2. f[k + 1] = IF k + 1 = 1 THEN s[k + 1] ELSE f[k] \o s[k + 1]
    BY <2>1 DEF Joining
  <2>3. s[k + 1] \in Seq(S)
    BY <2>1
  <2>4. k # 0 => f[k] \o s[k + 1] \in Seq(S)
    BY <1>2, <2>3, ConcatProperties
  <2>5. f[k + 1] \in Seq(S)
    BY <2>2, <2>3, <2>4
  <2> QED
    BY <2>1, <2>5
<1> HIDE DEF T
<1>3. 0 .. n \subseteq T
  BY <1>1, <1>2, CountsUp
<1> QED
  BY <1>3 DEF T

SameUpTo(s, t, n) == \A i \in 1 .. n : s[i] = t[i]

\* It depends on no more of them than it has joined.
LEMMA JoiningAgrees ==
  ASSUME NEW n \in Nat, NEW m \in Nat, n <= m, NEW s, NEW t, SameUpTo(s, t, n),
         NEW f, Joining(s, f, n), NEW g, Joining(t, g, m), NEW i \in 1 .. n
  PROVE  f[i] = g[i]
<1> DEFINE T == {k \in 0 .. n : k # 0 => f[k] = g[k]}
<1>1. 0 \in T
  OBVIOUS
<1>2. ASSUME NEW k \in 0 .. n, k # n, k \in T PROVE k + 1 \in T
  <2>1. k + 1 \in 1 .. n /\ k + 1 \in 1 .. m /\ k + 1 \in 0 .. n /\ (k + 1) - 1 = k
    BY <1>2
  <2>2. f[k + 1] = IF k + 1 = 1 THEN s[k + 1] ELSE f[k] \o s[k + 1]
    BY <2>1 DEF Joining
  <2>3. g[k + 1] = IF k + 1 = 1 THEN t[k + 1] ELSE g[k] \o t[k + 1]
    BY <2>1 DEF Joining
  <2>4. s[k + 1] = t[k + 1]
    BY <2>1 DEF SameUpTo
  <2> QED
    BY <1>2, <2>1, <2>2, <2>3, <2>4
<1> HIDE DEF T
<1>3. 0 .. n \subseteq T
  BY <1>1, <1>2, CountsUp
<1> QED
  BY <1>3 DEF T

\* One sequence more is joined at the end.
LEMMA FlattenTyped ==
  ASSUME NEW S, NEW s \in Seq(Seq(S))
  PROVE  FlattenSeq(s) \in Seq(S)
<1>1. CASE s = <<>>
  BY <1>1 DEF FlattenSeq
<1>2. CASE s # <<>>
  <2>1. Len(s) \in Nat \ {0} /\ \A i \in 1 .. Len(s) : s[i] \in Seq(S)
    BY <1>2, EmptySeq
  <2>2. PICK f : Joining(s, f, Len(s)) /\ FlattenSeq(s) = f[Len(s)]
    BY <2>1, FlattenIs
  <2> QED
    BY <2>1, <2>2, JoiningTyped
<1> QED
  BY <1>1, <1>2

\* One more is put at the end.
LEMMA FlattenAppend ==
  ASSUME NEW S, NEW s \in Seq(Seq(S)), NEW x \in Seq(S)
  PROVE  FlattenSeq(Append(s, x)) = FlattenSeq(s) \o x
<1> DEFINE t == Append(s, x)
           n == Len(s)
<1>1. /\ n \in Nat /\ Len(t) = n + 1 /\ t[n + 1] = x /\ \A i \in 1 .. n : s[i] = t[i]
      /\ t \in Seq(Seq(S))
  OBVIOUS
<1> HIDE DEF t, n
<1>2. PICK g : Joining(t, g, n + 1) /\ FlattenSeq(t) = g[n + 1]
  <2>1. Len(t) \in Nat /\ Len(t) # 0 /\ Len(t) = n + 1
    BY <1>1
  <2>2. \E g : Joining(t, g, Len(t)) /\ FlattenSeq(t) = g[Len(t)]
    BY <2>1, FlattenIs
  <2> QED
    BY <2>1, <2>2
<1>3. g[n + 1] = IF n + 1 = 1 THEN x ELSE g[n] \o x
  <2>1. n + 1 \in 1 .. n + 1 /\ (n + 1) - 1 = n
    BY <1>1
  <2> QED
    BY <1>1, <1>2, <2>1 DEF Joining
<1>4. CASE n = 0
  <2>1. s = <<>>
    BY <1>4, EmptySeq DEF n
  <2>2. FlattenSeq(s) = <<>>
    BY <2>1 DEF FlattenSeq
  <2>3. <<>> \o x = x
    BY ConcatEmptySeq
  <2> QED
    BY <1>2, <1>3, <1>4, <2>2, <2>3 DEF t
<1>5. CASE n # 0
  <2>1. PICK f : Joining(s, f, n) /\ FlattenSeq(s) = f[n]
    BY <1>1, <1>5, FlattenIs DEF n
  <2>2. n <= n + 1 /\ n + 1 \in Nat /\ n \in 1 .. n
    BY <1>1, <1>5
  <2>3. \A i \in 1 .. n : f[i] = g[i]
    <3> DEFINE m == n + 1
    <3>1. m \in Nat /\ n <= m /\ Joining(t, g, m) /\ SameUpTo(s, t, n)
      BY <1>1, <1>2, <2>2 DEF SameUpTo
    <3> HIDE DEF m
    <3> QED
      BY <1>1, <2>1, <3>1, JoiningAgrees
  <2> QED
    <3>1. FlattenSeq(t) = g[n] \o x
      BY <1>1, <1>2, <1>3, <1>5
    <3>2. g[n] = FlattenSeq(s)
      BY <2>1, <2>2, <2>3
    <3> QED
      BY <3>1, <3>2 DEF t
<1> QED
  BY <1>4, <1>5

-----------------------------------------------------------------------------
\* The function that a line is in goes on after it, unless the line ends it.
After(text, i) ==
  IF i = 0 \/ text[i].kind = "ENDFUNCTION" THEN NoFunction ELSE FunctionOf(text, i)

\* The function of a line, from what the line before has left.
LEMMA FunctionNext ==
  ASSUME NEW text, IsText(text), NEW i \in 0 .. Len(text), i # Len(text)
  PROVE  FunctionOf(text, i + 1) =
           IF text[i + 1].kind = "FUNCTION" THEN text[i + 1].name ELSE After(text, i)
<1> DEFINE Opens(n) == {j \in 1 .. n : /\ text[j].kind = "FUNCTION"
                                      /\ \A k \in j .. n - 1 : text[k].kind # "ENDFUNCTION"}
           Latest(S) == IF S = {} THEN NoFunction
                        ELSE text[CHOOSE j \in S : \A k \in S : k <= j].name
<1>1. \A n : FunctionOf(text, n) = Latest(Opens(n))
  BY DEF FunctionOf
<1>2. i \in Nat /\ i + 1 \in Nat
  <2>1. Len(text) \in Nat
    BY DEF IsText
  <2> QED
    BY <2>1
<1>3. CASE text[i + 1].kind = "FUNCTION"
  <2> DEFINE S == Opens(i + 1)
  <2>1. i + 1 \in S /\ \A k \in S : k \in Int /\ k <= i + 1
    BY <1>2, <1>3
  <2> HIDE DEF S
  <2>2. \A j \in S : (\A k \in S : k <= j) => j = i + 1
    BY <1>2, <2>1
  <2>3. (CHOOSE j \in S : \A k \in S : k <= j) = i + 1
    BY <2>1, <2>2
  <2>4. Latest(S) = text[i + 1].name
    BY <2>1, <2>3
  <2> QED
    BY <1>1, <1>3, <2>4 DEF S
<1>4. CASE text[i + 1].kind # "FUNCTION" /\ (i = 0 \/ text[i].kind = "ENDFUNCTION")
  <2>1. Opens(i + 1) = {}
    <3> SUFFICES ASSUME NEW j \in Opens(i + 1) PROVE FALSE
      OBVIOUS
    <3>1. j \in 1 .. i
      BY <1>2, <1>4
    <3>2. i \in j .. (i + 1) - 1
      BY <1>2, <3>1
    <3> QED
      BY <1>4, <3>1, <3>2
  <2> HIDE DEF Opens
  <2> QED
    BY <1>1, <1>4, <2>1 DEF After
<1>5. CASE text[i + 1].kind # "FUNCTION" /\ i # 0 /\ text[i].kind # "ENDFUNCTION"
  <2>1. \A j \in 1 .. i : \A k : k \in j .. (i + 1) - 1 <=> k \in j .. i - 1 \/ k = i
    BY <1>2
  <2>2. \A j : j \in 1 .. i + 1 <=> j \in 1 .. i \/ j = i + 1
    BY <1>2
  <2>3. Opens(i + 1) = Opens(i)
    BY <1>5, <2>1, <2>2
  <2> HIDE DEF Opens
  <2> QED
    BY <1>1, <1>5, <2>3 DEF After
<1> QED
  BY <1>3, <1>4, <1>5

-----------------------------------------------------------------------------
\* What has been read is a record whose chunks can be written.
Sound(l) ==
  /\ l = [current |-> l.current, body |-> l.body, uses |-> l.uses, use |-> l.use,
          chunk |-> l.chunk, chunks |-> l.chunks]
  /\ l.chunk \in Seq(Nat)
  /\ \A f \in DOMAIN l.body : l.body[f] \in Seq(Nat)
  /\ \E C : l.chunks \in Seq(C)
  /\ \A k \in 1 .. Len(l.chunks) :
       IF l.chunks[k].kind = "global" THEN l.chunks[k].data \in Seq(Nat)
       ELSE l.chunks[k].kind = "function" /\ l.chunks[k].data \in DOMAIN l.body

Piece(body, chunk, chosen) ==
  IF chunk.kind = "global" THEN chunk.data
  ELSE IF chunk.data \in chosen THEN body[chunk.data] ELSE <<>>

Pieces(l, chosen) == [k \in DOMAIN l.chunks |-> Piece(l.body, l.chunks[k], chosen)]

\* A copy is its pieces, joined.
LEMMA PiecesTyped ==
  ASSUME NEW l, Sound(l), NEW chosen
  PROVE  /\ Filtered(l, chosen) = FlattenSeq(Pieces(l, chosen))
         /\ Pieces(l, chosen) \in Seq(Seq(Nat)) /\ Len(Pieces(l, chosen)) = Len(l.chunks)
         /\ \A k \in 1 .. Len(l.chunks) : Pieces(l, chosen)[k] = Piece(l.body, l.chunks[k], chosen)
         /\ Filtered(l, chosen) \in Seq(Nat)
<1>1. Filtered(l, chosen) = FlattenSeq(Pieces(l, chosen))
  BY DEF Filtered, Pieces, Piece
<1>2. DOMAIN l.chunks = 1 .. Len(l.chunks) /\ Len(l.chunks) \in Nat
  BY DEF Sound
<1>3. \A k \in 1 .. Len(l.chunks) : Piece(l.body, l.chunks[k], chosen) \in Seq(Nat)
  BY DEF Sound, Piece
<1>4. Pieces(l, chosen) \in [1 .. Len(l.chunks) -> Seq(Nat)]
  BY <1>2, <1>3 DEF Pieces
<1>5. Pieces(l, chosen) \in Seq(Seq(Nat))
  BY <1>2, <1>4, SeqDef
<1>6. Len(Pieces(l, chosen)) = Len(l.chunks)
  BY <1>2, <1>4, <1>5
<1>7. FlattenSeq(Pieces(l, chosen)) \in Seq(Nat)
  BY <1>5, FlattenTyped
<1> QED
  BY <1>1, <1>2, <1>5, <1>6, <1>7 DEF Pieces

\* A chunk more, and no other change to what is written before it.
WrittenAlike(h, l, n, chosen) ==
  \A k \in 1 .. n : Piece(h.body, l.chunks[k], chosen) = Piece(l.body, l.chunks[k], chosen)

\* One chunk more at the end.
LEMMA ChunkMore ==
  ASSUME NEW l, Sound(l), NEW h, Sound(h), NEW c, h.chunks = Append(l.chunks, c), NEW chosen,
         WrittenAlike(h, l, Len(l.chunks), chosen)
  PROVE  Filtered(h, chosen) = Filtered(l, chosen) \o Piece(h.body, c, chosen)
<1> DEFINE s == Pieces(l, chosen)
           t == Pieces(h, chosen)
           x == Piece(h.body, c, chosen)
           n == Len(l.chunks)
<1>1. PICK C : l.chunks \in Seq(C)
  BY DEF Sound
<1>2. /\ n \in Nat /\ Len(h.chunks) = n + 1 /\ h.chunks[n + 1] = c
      /\ \A k \in 1 .. n : h.chunks[k] = l.chunks[k]
  <2>1. l.chunks \in Seq(C \cup {c})
    BY <1>1
  <2> QED
    BY <2>1
<1>3. /\ s \in Seq(Seq(Nat)) /\ Len(s) = n /\ t \in Seq(Seq(Nat)) /\ Len(t) = n + 1
      /\ \A k \in 1 .. n : s[k] = Piece(l.body, l.chunks[k], chosen)
      /\ \A k \in 1 .. n + 1 : t[k] = Piece(h.body, h.chunks[k], chosen)
      /\ Filtered(l, chosen) = FlattenSeq(s) /\ Filtered(h, chosen) = FlattenSeq(t)
  BY <1>2, PiecesTyped
<1> HIDE DEF s, t, n
<1>4. \A k \in 1 .. n : t[k] = s[k]
  <2> SUFFICES ASSUME NEW k \in 1 .. n PROVE t[k] = s[k]
    OBVIOUS
  <2>1. k \in 1 .. n + 1
    BY <1>2
  <2>2. Piece(h.body, l.chunks[k], chosen) = Piece(l.body, l.chunks[k], chosen)
    BY DEF n, WrittenAlike
  <2> QED
    BY <1>2, <1>3, <2>1, <2>2
<1>5. n + 1 \in 1 .. n + 1 /\ t[n + 1] = x
  BY <1>2, <1>3
<1>6. x \in Seq(Nat)
  BY <1>2, <1>3, <1>5
<1> HIDE DEF x
<1>7. t = Append(s, x)
  <2>1. /\ Append(s, x) \in Seq(Seq(Nat)) /\ Len(Append(s, x)) = n + 1
        /\ \A k \in 1 .. n + 1 : Append(s, x)[k] = t[k]
    BY <1>2, <1>3, <1>4, <1>5, <1>6
  <2> QED
    BY <1>3, <2>1, SeqEqual
<1>8. FlattenSeq(t) = FlattenSeq(s) \o x
  BY <1>3, <1>6, <1>7, FlattenAppend
<1> QED
  BY <1>3, <1>8 DEF x

\* All that is to be written of what has been read.
Out(l, chosen) == Filtered(l, chosen) \o l.chunk

\* Flushing moves lines, and loses none.
LEMMA FlushKeeps ==
  ASSUME NEW l, Sound(l), NEW chosen
  PROVE  LET h == flush_global(l)
         IN  /\ Sound(h) /\ h.chunk = <<>> /\ h.body = l.body /\ h.uses = l.uses
             /\ Filtered(h, chosen) = Out(l, chosen)
<1> DEFINE h == flush_global(l)
           c == [kind |-> "global", data |-> l.chunk]
<1>1. CASE l.chunk = <<>>
  <2>1. h = l /\ Filtered(l, chosen) \in Seq(Nat)
    BY <1>1, PiecesTyped DEF flush_global
  <2>2. Filtered(l, chosen) \o <<>> = Filtered(l, chosen)
    BY <2>1, ConcatEmptySeq
  <2> QED
    BY <1>1, <2>1, <2>2 DEF Out
<1>2. CASE l.chunk # <<>>
  <2>1. h = [current |-> l.current, body |-> l.body, uses |-> l.uses, use |-> l.use,
             chunk |-> <<>>, chunks |-> Append(l.chunks, c)]
    BY <1>2 DEF flush_global, Sound
  <2> HIDE DEF h
  <2>2. Sound(h)
    <3>1. PICK C : l.chunks \in Seq(C)
      BY DEF Sound
    <3>2. l.chunks \in Seq(C \cup {c})
      BY <3>1
    <3>3. /\ h.chunks \in Seq(C \cup {c}) /\ Len(h.chunks) = Len(l.chunks) + 1 /\ Len(l.chunks) \in Nat
          /\ h.chunks[Len(l.chunks) + 1] = c
          /\ \A k \in 1 .. Len(l.chunks) : h.chunks[k] = l.chunks[k]
      BY <2>1, <3>2
    <3>4. c.kind = "global" /\ c.data \in Seq(Nat)
      BY DEF Sound
    <3>5. h = [current |-> h.current, body |-> h.body, uses |-> h.uses, use |-> h.use,
               chunk |-> h.chunk, chunks |-> h.chunks]
          /\ h.chunk = <<>> /\ h.body = l.body
      BY <2>1
    <3> HIDE DEF c
    <3>6. ASSUME NEW k \in 1 .. Len(h.chunks)
          PROVE  IF h.chunks[k].kind = "global" THEN h.chunks[k].data \in Seq(Nat)
                 ELSE h.chunks[k].kind = "function" /\ h.chunks[k].data \in DOMAIN h.body
      <4>1. k \in 1 .. Len(l.chunks) \/ k = Len(l.chunks) + 1
        BY <3>3
      <4> QED
        BY <3>3, <3>4, <3>5, <4>1 DEF Sound
    <3>7. <<>> \in Seq(Nat) /\ \A f \in DOMAIN h.body : h.body[f] \in Seq(Nat)
      BY <3>5 DEF Sound
    <3> QED
      BY <3>3, <3>5, <3>6, <3>7 DEF Sound
  <2>3. Filtered(h, chosen) = Filtered(l, chosen) \o Piece(h.body, c, chosen)
    <3>1. Sound(l) /\ Sound(h) /\ h.chunks = Append(l.chunks, c)
      BY <2>1, <2>2
    <3>2. WrittenAlike(h, l, Len(l.chunks), chosen)
      BY <2>1 DEF WrittenAlike
    <3>3. \A e : h.chunks = Append(l.chunks, e) =>
            Filtered(h, chosen) = Filtered(l, chosen) \o Piece(h.body, e, chosen)
      BY <3>1, <3>2, ChunkMore
    <3> QED
      BY <3>1, <3>3
  <2>4. Piece(h.body, c, chosen) = l.chunk
    BY DEF Piece
  <2> QED
    <3>1. h.chunk = <<>> /\ h.body = l.body /\ h.uses = l.uses /\ Filtered(h, chosen) = Out(l, chosen)
      BY <2>1, <2>3, <2>4 DEF Out
    <3> QED
      BY <2>2, <3>1 DEF h
<1> QED
  BY <1>1, <1>2

\* The function whose lines are being read is that of the last chunk, and of no other one.
Within(l) ==
  l.current # NoFunction =>
    /\ l.chunk = <<>> /\ l.current \in DOMAIN l.body
    /\ Len(l.chunks) \in Nat \ {0}
    /\ \A k \in 1 .. Len(l.chunks) :
         l.chunks[k].kind = "function" /\ l.chunks[k].data = l.current <=> k = Len(l.chunks)

\* A line that begins a function which is not known.
LEMMA FunctionLine ==
  ASSUME NEW l, Sound(l), NEW line, line.kind = "FUNCTION", line.name \notin DOMAIN l.body,
         NEW i \in Nat, NEW chosen
  PROVE  LET h == ReadLine(l, line, i)
         IN  /\ Sound(h) /\ Within(h) /\ h.current = line.name
             /\ DOMAIN h.body = DOMAIN l.body \cup {line.name}
             /\ Out(h, chosen) = IF line.name \in chosen THEN Append(Out(l, chosen), i) ELSE Out(l, chosen)
<1> DEFINE g == flush_global(l)
           h == ReadLine(l, line, i)
           f == line.name
           c == [kind |-> "function", data |-> f]
<1>1. Sound(g) /\ g.chunk = <<>> /\ g.body = l.body /\ Filtered(g, chosen) = Out(l, chosen)
  BY FlushKeeps
<1>2. h = [g EXCEPT !.current = f, !.body = WithKey(@, f, <<i>>), !.uses = WithKey(@, f, {}),
                    !.chunks = Append(@, c)]
  BY DEF ReadLine
<1> HIDE DEF g, h
<1>3. /\ h = [current |-> h.current, body |-> h.body, uses |-> h.uses, use |-> h.use,
              chunk |-> h.chunk, chunks |-> h.chunks]
      /\ h.current = f /\ h.body = WithKey(g.body, f, <<i>>) /\ h.chunk = <<>>
      /\ h.chunks = Append(g.chunks, c)
  BY <1>1, <1>2 DEF Sound
<1>4. /\ DOMAIN h.body = DOMAIN l.body \cup {f} /\ h.body[f] = <<i>>
      /\ \A e \in DOMAIN g.body : e # f /\ e \in DOMAIN h.body /\ h.body[e] = g.body[e]
      /\ \A e \in DOMAIN h.body : h.body[e] \in Seq(Nat)
  <2>1. \A e \in DOMAIN g.body : g.body[e] \in Seq(Nat)
    BY <1>1 DEF Sound
  <2>2. <<i>> \in Seq(Nat)
    OBVIOUS
  <2> QED
    BY <1>1, <1>3, <2>1, <2>2 DEF WithKey
<1>5. PICK C : g.chunks \in Seq(C)
  BY <1>1 DEF Sound
<1>6. /\ h.chunks \in Seq(C \cup {c}) /\ Len(h.chunks) = Len(g.chunks) + 1 /\ Len(g.chunks) \in Nat
      /\ h.chunks[Len(g.chunks) + 1] = c
      /\ \A k \in 1 .. Len(g.chunks) : h.chunks[k] = g.chunks[k]
  <2>1. g.chunks \in Seq(C \cup {c})
    BY <1>5
  <2> HIDE DEF c
  <2> QED
    BY <1>3, <2>1
<1>7. c.kind = "function" /\ c.data = f
  OBVIOUS
<1> HIDE DEF c
<1>8. ASSUME NEW k \in 1 .. Len(h.chunks)
      PROVE  \/ k = Len(h.chunks) /\ h.chunks[k] = c
             \/ /\ k # Len(h.chunks) /\ k \in 1 .. Len(g.chunks) /\ h.chunks[k] = g.chunks[k]
                /\ IF h.chunks[k].kind = "global" THEN h.chunks[k].data \in Seq(Nat)
                   ELSE h.chunks[k].kind = "function" /\ h.chunks[k].data \in DOMAIN g.body
  <2>1. k = Len(h.chunks) \/ (k # Len(h.chunks) /\ k \in 1 .. Len(g.chunks))
    BY <1>6
  <2> QED
    BY <1>1, <1>6, <2>1 DEF Sound
<1>9. Sound(h)
  <2>1. <<>> \in Seq(Nat)
    OBVIOUS
  <2>2. \A k \in 1 .. Len(h.chunks) :
          IF h.chunks[k].kind = "global" THEN h.chunks[k].data \in Seq(Nat)
          ELSE h.chunks[k].kind = "function" /\ h.chunks[k].data \in DOMAIN h.body
    BY <1>4, <1>7, <1>8
  <2> QED
    BY <1>3, <1>4, <1>6, <2>1, <2>2 DEF Sound
<1>10. Within(h)
  <2>1. \A k \in 1 .. Len(h.chunks) :
          h.chunks[k].kind = "function" /\ h.chunks[k].data = h.current <=> k = Len(h.chunks)
    BY <1>3, <1>4, <1>7, <1>8
  <2>2. Len(h.chunks) \in Nat \ {0}
    BY <1>6
  <2> QED
    BY <1>3, <1>4, <2>1, <2>2 DEF Within
<1>11. Filtered(h, chosen) = Filtered(g, chosen) \o (IF f \in chosen THEN <<i>> ELSE <<>>)
  <2>1. WrittenAlike(h, g, Len(g.chunks), chosen)
    BY <1>1, <1>4 DEF Sound, Piece, WrittenAlike
  <2>2. Filtered(h, chosen) = Filtered(g, chosen) \o Piece(h.body, c, chosen)
    <3>1. Sound(g) /\ Sound(h) /\ h.chunks = Append(g.chunks, c)
      BY <1>1, <1>3, <1>9
    <3> QED
      BY <2>1, <3>1, ChunkMore
  <2> QED
    BY <1>4, <1>7, <2>2 DEF Piece
<1>12. Filtered(g, chosen) \in Seq(Nat) /\ Filtered(h, chosen) \in Seq(Nat)
  BY <1>1, <1>9, PiecesTyped
<1>13. Out(h, chosen) = Filtered(h, chosen)
  BY <1>3, <1>12, ConcatEmptySeq DEF Out
<1>14. /\ Filtered(g, chosen) \o <<>> = Filtered(g, chosen)
       /\ Filtered(g, chosen) \o <<i>> = Append(Filtered(g, chosen), i)
  BY <1>12, ConcatEmptySeq, AppendIsConcat
<1> QED
  BY <1>1, <1>3, <1>4, <1>9, <1>10, <1>11, <1>13, <1>14 DEF h

\* A line of a function.
LEMMA InnerLine ==
  ASSUME NEW l, Sound(l), Within(l), l.current # NoFunction,
         NEW line, line.kind \in {"ENDFUNCTION", "text"}, NEW i \in Nat, NEW chosen
  PROVE  LET h == ReadLine(l, line, i)
         IN  /\ Sound(h) /\ Within(h) /\ DOMAIN h.body = DOMAIN l.body
             /\ h.current = IF line.kind = "ENDFUNCTION" THEN NoFunction ELSE l.current
             /\ Out(h, chosen) = IF l.current \in chosen THEN Append(Out(l, chosen), i) ELSE Out(l, chosen)
<1> DEFINE h == ReadLine(l, line, i)
           f == l.current
           n == Len(l.chunks)
           c == l.chunks[n]
           s == Pieces(l, chosen)
           t == Pieces(h, chosen)
<1>1. /\ h = [current |-> h.current, body |-> h.body, uses |-> h.uses, use |-> h.use,
              chunk |-> h.chunk, chunks |-> h.chunks]
      /\ h.body = [l.body EXCEPT ![f] = Append(@, i)]
      /\ h.current = (IF line.kind = "ENDFUNCTION" THEN NoFunction ELSE f)
      /\ h.chunk = l.chunk /\ h.chunks = l.chunks
  <2>1. CASE line.kind = "ENDFUNCTION"
    <3>1. h = [l EXCEPT !.body[f] = Append(@, i), !.current = NoFunction]
      BY <2>1 DEF ReadLine
    <3> QED
      BY <2>1, <3>1 DEF Sound
  <2>2. CASE line.kind = "text"
    <3>1. h = [l EXCEPT !.body[f] = Append(@, i)]
      BY <2>2 DEF ReadLine
    <3> QED
      BY <2>2, <3>1 DEF Sound
  <2> QED
    BY <2>1, <2>2
<1> HIDE DEF h
<1>2. /\ l.chunk = <<>> /\ f \in DOMAIN l.body /\ n \in Nat \ {0}
      /\ \A k \in 1 .. n : l.chunks[k].kind = "function" /\ l.chunks[k].data = f <=> k = n
  BY DEF Within
<1>3. /\ DOMAIN h.body = DOMAIN l.body /\ h.body[f] = Append(l.body[f], i)
      /\ l.body[f] \in Seq(Nat) /\ \A e \in DOMAIN l.body : e # f => h.body[e] = l.body[e]
      /\ \A e \in DOMAIN h.body : h.body[e] \in Seq(Nat)
  <2>1. \A e \in DOMAIN l.body : l.body[e] \in Seq(Nat)
    BY DEF Sound
  <2>2. Append(l.body[f], i) \in Seq(Nat)
    BY <1>2, <2>1
  <2> QED
    BY <1>1, <1>2, <2>1, <2>2
<1>4. Sound(h)
  BY <1>1, <1>3 DEF Sound
<1>5. Within(h)
  BY <1>1, <1>2, <1>3 DEF Within
<1>6. /\ s \in Seq(Seq(Nat)) /\ Len(s) = n /\ t \in Seq(Seq(Nat)) /\ Len(t) = n
      /\ \A k \in 1 .. n : s[k] = Piece(l.body, l.chunks[k], chosen)
      /\ \A k \in 1 .. n : t[k] = Piece(h.body, l.chunks[k], chosen)
      /\ Filtered(l, chosen) = FlattenSeq(s) /\ Filtered(h, chosen) = FlattenSeq(t)
      /\ Filtered(l, chosen) \in Seq(Nat) /\ Filtered(h, chosen) \in Seq(Nat)
  <2>1. /\ s \in Seq(Seq(Nat)) /\ Len(s) = n
        /\ \A k \in 1 .. n : s[k] = Piece(l.body, l.chunks[k], chosen)
        /\ Filtered(l, chosen) = FlattenSeq(s) /\ Filtered(l, chosen) \in Seq(Nat)
    BY PiecesTyped
  <2>2. /\ t \in Seq(Seq(Nat)) /\ Len(t) = Len(h.chunks)
        /\ \A k \in 1 .. Len(h.chunks) : t[k] = Piece(h.body, h.chunks[k], chosen)
        /\ Filtered(h, chosen) = FlattenSeq(t) /\ Filtered(h, chosen) \in Seq(Nat)
    BY <1>4, PiecesTyped
  <2> QED
    BY <1>1, <2>1, <2>2
<1>7. \A k \in 1 .. n : k # n => t[k] = s[k]
  <2> SUFFICES ASSUME NEW k \in 1 .. n, k # n
               PROVE  Piece(h.body, l.chunks[k], chosen) = Piece(l.body, l.chunks[k], chosen)
    BY <1>6
  <2>1. \/ l.chunks[k].kind = "global"
        \/ l.chunks[k].data \in DOMAIN l.body /\ l.chunks[k].data # f
    BY <1>2 DEF Sound
  <2> QED
    BY <1>3, <2>1 DEF Piece
<1>8. n \in 1 .. n /\ c.kind = "function" /\ c.data = f
  BY <1>2
<1>9. /\ s[n] = IF f \in chosen THEN l.body[f] ELSE <<>>
      /\ t[n] = IF f \in chosen THEN Append(s[n], i) ELSE s[n]
  <2>1. c.kind # "global"
    BY <1>8
  <2> QED
    BY <1>3, <1>6, <1>8, <2>1 DEF Piece
<1>10. Out(l, chosen) = Filtered(l, chosen) /\ Out(h, chosen) = Filtered(h, chosen)
  BY <1>1, <1>2, <1>6, ConcatEmptySeq DEF Out
<1> HIDE DEF s, t, n, f, c
<1>11. CASE f \notin chosen
  <2>1. \A k \in 1 .. n : t[k] = s[k]
    BY <1>7, <1>9, <1>11
  <2>2. t = s
    BY <1>6, <2>1, SeqEqual
  <2> QED
    BY <1>1, <1>3, <1>4, <1>5, <1>6, <1>10, <1>11, <2>2 DEF h, f
<1>12. CASE f \in chosen
  <2> DEFINE r == [k \in 1 .. n - 1 |-> s[k]]
             x == s[n]
  <2>1. x \in Seq(Nat) /\ n \in Nat \ {0} /\ n - 1 \in Nat /\ \A k \in 1 .. n - 1 : k \in 1 .. n /\ k # n /\ s[k] \in Seq(Nat)
    BY <1>2, <1>6, <1>8 DEF n
  <2>2. r \in [1 .. n - 1 -> Seq(Nat)]
    BY <2>1
  <2>3. r \in Seq(Seq(Nat)) /\ Len(r) = n - 1 /\ \A k \in 1 .. n - 1 : r[k] = s[k]
    BY <2>1, <2>2, SeqDef
  <2> HIDE DEF r, x
  <2>4. ASSUME NEW y \in Seq(Nat), NEW q \in Seq(Seq(Nat)), Len(q) = n, q[n] = y,
               \A k \in 1 .. n - 1 : q[k] = s[k]
        PROVE  FlattenSeq(q) = FlattenSeq(r) \o y
    <3>1. /\ Append(r, y) \in Seq(Seq(Nat)) /\ Len(Append(r, y)) = n /\ Append(r, y)[n] = y
          /\ \A k \in 1 .. n - 1 : Append(r, y)[k] = r[k]
      BY <2>1, <2>3
    <3>2. \A k \in 1 .. n : k = n \/ k \in 1 .. n - 1
      BY <2>1
    <3>3. \A k \in 1 .. n : q[k] = Append(r, y)[k]
      BY <2>3, <2>4, <3>1, <3>2
    <3>4. q = Append(r, y)
      BY <2>4, <3>1, <3>3, SeqEqual
    <3> QED
      BY <2>3, <3>4, FlattenAppend
  <2>5. FlattenSeq(s) = FlattenSeq(r) \o x
    BY <1>6, <2>1, <2>4 DEF x
  <2>6. Append(x, i) \in Seq(Nat) /\ t[n] = Append(x, i) /\ \A k \in 1 .. n - 1 : t[k] = s[k]
    BY <1>7, <1>9, <1>12, <2>1 DEF x
  <2>7. FlattenSeq(t) = FlattenSeq(r) \o Append(x, i)
    BY <1>6, <2>4, <2>6
  <2>8. FlattenSeq(r) \in Seq(Nat)
    BY <2>3, FlattenTyped
  <2>9. FlattenSeq(r) \o Append(x, i) = Append(FlattenSeq(r) \o x, i)
    BY <2>1, <2>8
  <2>10. Filtered(h, chosen) = Append(Filtered(l, chosen), i)
    BY <1>6, <2>5, <2>7, <2>9
  <2> QED
    BY <1>1, <1>3, <1>4, <1>5, <1>10, <1>12, <2>10 DEF h, f
<1> QED
  BY <1>11, <1>12

\* A line outside of functions.
LEMMA OuterLine ==
  ASSUME NEW l, Sound(l), l.current = NoFunction, NEW line, line.kind = "text", NEW i \in Nat, NEW chosen
  PROVE  LET h == ReadLine(l, line, i)
         IN  /\ Sound(h) /\ Within(h) /\ DOMAIN h.body = DOMAIN l.body /\ h.current = NoFunction
             /\ Out(h, chosen) = Append(Out(l, chosen), i)
<1> DEFINE h == ReadLine(l, line, i)
<1>1. h = [l EXCEPT !.chunk = Append(@, i)]
  BY DEF ReadLine
<1> HIDE DEF h
<1>2. /\ h = [current |-> h.current, body |-> h.body, uses |-> h.uses, use |-> h.use,
              chunk |-> h.chunk, chunks |-> h.chunks]
      /\ h.body = l.body /\ h.current = NoFunction
      /\ h.chunk = Append(l.chunk, i) /\ h.chunks = l.chunks
  BY <1>1 DEF Sound
<1>3. l.chunk \in Seq(Nat) /\ Append(l.chunk, i) \in Seq(Nat)
  BY DEF Sound
<1>4. Sound(h)
  BY <1>2, <1>3 DEF Sound
<1>5. Filtered(h, chosen) = Filtered(l, chosen) /\ Filtered(l, chosen) \in Seq(Nat)
  BY <1>2, PiecesTyped DEF Filtered
<1>6. Filtered(l, chosen) \o Append(l.chunk, i) = Append(Filtered(l, chosen) \o l.chunk, i)
  BY <1>3, <1>5
<1>7. Within(h)
  BY <1>2 DEF Within
<1> QED
  BY <1>2, <1>4, <1>5, <1>6, <1>7 DEF Out, h

\* A line that is not written.
LEMMA NoLine ==
  ASSUME NEW l, Sound(l), Within(l), NEW line, NEW i \in Nat, NEW chosen,
         line.kind = "USE" \/ (line.kind = "ENDFUNCTION" /\ l.current = NoFunction)
  PROVE  LET h == ReadLine(l, line, i)
         IN  /\ Sound(h) /\ Within(h) /\ DOMAIN h.body = DOMAIN l.body /\ h.current = l.current
             /\ Out(h, chosen) = Out(l, chosen)
<1> DEFINE h == ReadLine(l, line, i)
<1>1. \/ h = l \/ h = [l EXCEPT !.use = @ \cup line.uses]
      \/ h = [l EXCEPT !.uses[l.current] = @ \cup line.uses]
  BY DEF ReadLine
<1> HIDE DEF h
<1>2. /\ h = [current |-> h.current, body |-> h.body, uses |-> h.uses, use |-> h.use,
              chunk |-> h.chunk, chunks |-> h.chunks]
      /\ h.body = l.body /\ h.current = l.current /\ h.chunk = l.chunk /\ h.chunks = l.chunks
  BY <1>1 DEF Sound
<1>3. Sound(h)
  BY <1>2 DEF Sound
<1>4. Within(h)
  BY <1>2 DEF Within
<1>5. Out(h, chosen) = Out(l, chosen)
  BY <1>2 DEF Out, Filtered
<1> QED
  BY <1>2, <1>3, <1>4, <1>5 DEF h

-----------------------------------------------------------------------------
\* A greater line at the end keeps lines in their order.
LEMMA OrderGrows ==
  ASSUME NEW s \in Seq(Nat), NEW n \in Nat, NEW S \in SUBSET (1 .. n), InOrder(s, S)
  PROVE  InOrder(Append(s, n + 1), S \cup {n + 1})
<1> DEFINE t == Append(s, n + 1)
<1>1. /\ DOMAIN s = 1 .. Len(s) /\ Len(s) \in Nat /\ DOMAIN t = 1 .. Len(s) + 1
      /\ t[Len(s) + 1] = n + 1 /\ \A i \in 1 .. Len(s) : t[i] = s[i]
  OBVIOUS
<1> HIDE DEF t
<1>2. \A i \in DOMAIN t : i \in DOMAIN s \/ i = Len(s) + 1
  BY <1>1
<1>3. \A i \in DOMAIN s : s[i] \in S /\ s[i] < n + 1 /\ i \in DOMAIN t /\ i < Len(s) + 1
  BY <1>1 DEF InOrder, ToSet
<1>4. ToSet(t) = S \cup {n + 1}
  <2>1. ToSet(s) = S /\ Len(s) + 1 \in DOMAIN t
    BY <1>1 DEF InOrder
  <2> QED
    BY <1>1, <1>2, <1>3, <2>1 DEF ToSet
<1>5. ASSUME NEW i \in DOMAIN t, NEW j \in DOMAIN t, i < j PROVE t[i] < t[j]
  <2>1. i \in DOMAIN s
    BY <1>1, <1>5
  <2>2. CASE j \in DOMAIN s
    BY <1>1, <1>5, <2>1, <2>2 DEF InOrder
  <2>3. CASE j = Len(s) + 1
    BY <1>1, <1>3, <2>1, <2>3
  <2> QED
    BY <1>2, <2>2, <2>3
<1> QED
  BY <1>4, <1>5 DEF InOrder, t

\* The lines of a text that are to be written, and the functions that begin in it.
Wanted(text, chosen, i) ==
  /\ text[i].kind # "USE"
  /\ IF FunctionOf(text, i) = NoFunction THEN text[i].kind = "text" ELSE FunctionOf(text, i) \in chosen
WantedTo(text, chosen, n) == {i \in 1 .. n : Wanted(text, chosen, i)}
Begun(text, n) == {text[j].name : j \in {j \in 1 .. n : text[j].kind = "FUNCTION"}}

\* After n lines, they are what is to be written of what has been read.
ReadInv(text, chosen, n, l) ==
  /\ Sound(l) /\ Within(l)
  /\ DOMAIN l.body = Begun(text, n) /\ l.current = After(text, n)
  /\ InOrder(Out(l, chosen), WantedTo(text, chosen, n))

\* Before the first line.
LEMMA NothingReadYet ==
  ASSUME NEW text, NEW chosen
  PROVE  ReadInv(text, chosen, 0, NothingRead)
<1> DEFINE l == NothingRead
<1>1. l = [current |-> NoFunction, body |-> <<>>, uses |-> <<>>, use |-> {}, chunk |-> <<>>, chunks |-> <<>>]
  BY DEF NothingRead
<1> HIDE DEF l
<1>2. l.current = NoFunction /\ l.body = <<>> /\ l.chunk = <<>> /\ l.chunks = <<>> /\ DOMAIN l.body = {}
  BY <1>1
<1>3. <<>> \in Seq(Nat) /\ Len(<<>>) = 0 /\ 1 .. 0 = {}
  OBVIOUS
<1>4. Sound(l) /\ Within(l)
  BY <1>1, <1>2, <1>3 DEF Sound, Within
<1>5. Out(l, chosen) = <<>>
  <2>1. Filtered(l, chosen) = FlattenSeq(Pieces(l, chosen)) /\ Len(Pieces(l, chosen)) = 0
        /\ Pieces(l, chosen) \in Seq(Seq(Nat))
    BY <1>2, <1>3, <1>4, PiecesTyped
  <2>2. Pieces(l, chosen) = <<>>
    BY <2>1, EmptySeq
  <2>3. Filtered(l, chosen) = <<>>
    BY <2>1, <2>2 DEF FlattenSeq
  <2> QED
    BY <1>2, <1>3, <2>3, ConcatEmptySeq DEF Out
<1>6. InOrder(<<>>, {})
  BY DEF InOrder, ToSet
<1>7. Begun(text, 0) = {} /\ WantedTo(text, chosen, 0) = {} /\ After(text, 0) = NoFunction
  BY <1>3 DEF Begun, WantedTo, After
<1> QED
  BY <1>2, <1>4, <1>5, <1>6, <1>7 DEF ReadInv, l

\* The line after n, of m.
LEMMA NextOfRange ==
  ASSUME NEW m \in Nat, NEW n \in 0 .. m, n # m
  PROVE  n \in Nat /\ n + 1 \in Nat /\ n + 1 # 0 /\ n + 1 \in 1 .. m /\ \A j \in 1 .. n : j \in 1 .. m /\ j # n + 1
OBVIOUS

\* One line more, of any kind.
LEMMA ReadNext ==
  ASSUME NEW text, IsText(text), OneOfEach(text), NEW chosen, NEW n \in 0 .. Len(text), n # Len(text),
         NEW l, ReadInv(text, chosen, n, l)
  PROVE  ReadInv(text, chosen, n + 1, ReadLine(l, text[n + 1], n + 1))
<1> DEFINE i == n + 1
           line == text[i]
           h == ReadLine(l, line, i)
           f == FunctionOf(text, i)
<1>1. Len(text) \in Nat /\ DOMAIN text = 1 .. Len(text)
  BY DEF IsText
<1>2. n \in Nat /\ i \in Nat /\ i # 0 /\ i \in DOMAIN text /\ \A j \in 1 .. n : j \in DOMAIN text /\ j # i
  BY <1>1, NextOfRange
<1>3. Sound(l) /\ Within(l) /\ DOMAIN l.body = Begun(text, n) /\ l.current = After(text, n)
  BY DEF ReadInv
<1>4. f = IF line.kind = "FUNCTION" THEN line.name ELSE l.current
  BY <1>3, FunctionNext
<1>5. After(text, i) = IF line.kind = "ENDFUNCTION" THEN NoFunction ELSE f
  BY <1>2 DEF After
<1>6. /\ line.kind \in {"FUNCTION", "ENDFUNCTION", "USE", "text"}
      /\ line.kind = "FUNCTION" => line.name # NoFunction
  BY <1>2 DEF IsText
<1>7. \A j \in 1 .. i : j \in 1 .. n \/ j = i
  BY <1>2
<1>8. Begun(text, i) = Begun(text, n) \cup (IF line.kind = "FUNCTION" THEN {line.name} ELSE {})
  BY <1>2, <1>7 DEF Begun
<1>9. line.kind = "FUNCTION" => line.name \notin Begun(text, n)
  BY <1>2 DEF Begun, OneOfEach
<1>10. /\ Sound(h) /\ Within(h) /\ DOMAIN h.body = Begun(text, i) /\ h.current = After(text, i)
       /\ Out(h, chosen) = IF Wanted(text, chosen, i) THEN Append(Out(l, chosen), i) ELSE Out(l, chosen)
  <2> HIDE DEF i, line, h, f
  <2>1. CASE line.kind = "FUNCTION"
    <3>1. /\ Sound(h) /\ Within(h) /\ h.current = line.name
          /\ DOMAIN h.body = DOMAIN l.body \cup {line.name}
          /\ Out(h, chosen) = IF line.name \in chosen THEN Append(Out(l, chosen), i) ELSE Out(l, chosen)
      BY <1>2, <1>3, <1>9, <2>1, FunctionLine DEF h
    <3> QED
      BY <1>3, <1>4, <1>5, <1>6, <1>8, <2>1, <3>1 DEF Wanted, line, f
  <2>2. CASE line.kind \in {"ENDFUNCTION", "text"} /\ l.current # NoFunction
    <3>1. /\ Sound(h) /\ Within(h) /\ DOMAIN h.body = DOMAIN l.body
          /\ h.current = IF line.kind = "ENDFUNCTION" THEN NoFunction ELSE l.current
          /\ Out(h, chosen) = IF l.current \in chosen THEN Append(Out(l, chosen), i) ELSE Out(l, chosen)
      BY <1>2, <1>3, <2>2, InnerLine DEF h
    <3> QED
      BY <1>3, <1>4, <1>5, <1>8, <2>2, <3>1 DEF Wanted, line, f
  <2>3. CASE line.kind = "text" /\ l.current = NoFunction
    <3>1. /\ Sound(h) /\ Within(h) /\ DOMAIN h.body = DOMAIN l.body /\ h.current = NoFunction
          /\ Out(h, chosen) = Append(Out(l, chosen), i)
      <4>1. line.kind = "text" /\ l.current = NoFunction /\ Sound(l) /\ i \in Nat
        BY <1>2, <1>3, <2>3
      <4> QED
        BY <4>1, OuterLine DEF h
    <3> QED
      BY <1>3, <1>4, <1>5, <1>8, <2>3, <3>1 DEF Wanted, line, f
  <2>4. CASE line.kind = "USE" \/ (line.kind = "ENDFUNCTION" /\ l.current = NoFunction)
    <3>1. /\ Sound(h) /\ Within(h) /\ DOMAIN h.body = DOMAIN l.body /\ h.current = l.current
          /\ Out(h, chosen) = Out(l, chosen)
      BY <1>2, <1>3, <2>4, NoLine DEF h
    <3> QED
      BY <1>3, <1>4, <1>5, <1>8, <2>4, <3>1 DEF Wanted, line, f
  <2> QED
    BY <1>6, <2>1, <2>2, <2>3, <2>4
<1>11. InOrder(Out(h, chosen), WantedTo(text, chosen, i))
  <2>1. InOrder(Out(l, chosen), WantedTo(text, chosen, n)) /\ WantedTo(text, chosen, n) \in SUBSET (1 .. n)
    BY DEF ReadInv, WantedTo
  <2>2. Out(l, chosen) \in Seq(Nat)
    <3>1. l.chunk \in Seq(Nat) /\ Filtered(l, chosen) \in Seq(Nat)
      BY <1>3, PiecesTyped DEF Sound
    <3> QED
      BY <3>1 DEF Out
  <2>3. WantedTo(text, chosen, i) =
          IF Wanted(text, chosen, i) THEN WantedTo(text, chosen, n) \cup {i} ELSE WantedTo(text, chosen, n)
    BY <1>2, <1>7 DEF WantedTo
  <2>4. InOrder(Append(Out(l, chosen), n + 1), WantedTo(text, chosen, n) \cup {n + 1})
    BY <1>2, <2>1, <2>2, OrderGrows
  <2> QED
    BY <1>10, <2>1, <2>3, <2>4
<1> QED
  BY <1>10, <1>11 DEF ReadInv

\* What is written of a library are the lines that are outside of functions and those of the
\* chosen ones, each once and in their order: Scan and Filtered, for texts of every length.
LEMMA FilteredRight ==
  ASSUME NEW text, IsText(text), OneOfEach(text), NEW chosen
  PROVE  InOrder(Filtered(Scan(text), chosen), WantedTo(text, chosen, Len(text)))
<1>1. Len(text) \in Nat
  BY DEF IsText
<1>2. PICK f : Reading(text, f, Len(text)) /\ Scan(text) = flush_global(f[Len(text)])
  BY <1>1, ScanIs
<1> DEFINE T == {k \in 0 .. Len(text) : ReadInv(text, chosen, k, f[k])}
<1>3. 0 \in T
  <2>1. f[0] = NothingRead
    BY <1>1, <1>2 DEF Reading
  <2> QED
    BY <1>1, <2>1, NothingReadYet
<1>4. ASSUME NEW k \in 0 .. Len(text), k # Len(text), k \in T PROVE k + 1 \in T
  <2>1. k + 1 \in 0 .. Len(text) /\ k + 1 # 0 /\ (k + 1) - 1 = k
    BY <1>1, <1>4
  <2>2. f[k + 1] = ReadLine(f[k], text[k + 1], k + 1)
    BY <1>2, <2>1 DEF Reading
  <2>3. ReadInv(text, chosen, k + 1, ReadLine(f[k], text[k + 1], k + 1))
    BY <1>4, ReadNext
  <2> QED
    BY <2>1, <2>2, <2>3
<1> HIDE DEF T
<1>5. Len(text) \in T
  <2>1. 0 .. Len(text) \subseteq T
    BY <1>1, <1>3, <1>4, CountsUp
  <2> QED
    BY <1>1, <2>1
<1> DEFINE l == f[Len(text)]
<1>6. Sound(l) /\ InOrder(Out(l, chosen), WantedTo(text, chosen, Len(text)))
  BY <1>5 DEF T, ReadInv
<1>7. Filtered(flush_global(l), chosen) = Out(l, chosen)
  BY <1>6, FlushKeeps
<1> QED
  BY <1>2, <1>6, <1>7

\* LoadsTheLines: of a library with one function of each name, each line that is needed is
\* loaded, once and in its order, and no other: for libraries of any length and any number
\* of processes in one directory.
THEOREM LoadsRight == LinkSpec => []LoadsTheLines
<1>1. LinkInit => LoadedInv /\ ResolvingInv
  BY InitLoaded, InitMaps
<1>2. LoadedInv => LoadsTheLines
  <2> SUFFICES ASSUME LoadedInv, NEW p \in Procs, pc[p] = "loaded",
                      OneOfEach(libs[Last(linked[p]).lib])
               PROVE  InOrder(Last(linked[p]).text, Lines(Last(linked[p]).lib, Last(linked[p]).asked))
    BY DEF LoadsTheLines
  <2> DEFINE k == Last(linked[p])
             text == libs[k.lib]
             chosen == Needed(UsesOf(k.lib), k.asked)
  <2>1. k.lib \in DOMAIN libs /\ libs \in Libraries /\ k.text = Filtered(Scan(text), chosen)
    BY DEF LoadedInv, LoadedOf, CopyOf
  <2>2. IsText(text) /\ OneOfEach(text)
    BY <2>1, LibrariesAssumption
  <2>3. InOrder(k.text, WantedTo(text, chosen, Len(text)))
    BY <2>1, <2>2, FilteredRight
  <2>4. Lines(k.lib, k.asked) = WantedTo(text, chosen, Len(text))
    BY <2>2 DEF Lines, LinesOf, UsesOf, WantedTo, Wanted, IsText
  <2> QED
    BY <2>3, <2>4
<1> QED
  BY <1>1, <1>2, NextLoaded, NextResolving, FilesInvariant, PTL DEF LinkSpec
=============================================================================
