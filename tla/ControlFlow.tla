---------------------------- MODULE ControlFlow ----------------------------
(***************************************************************************)
(* execute.go: execNode, as a machine with a stack of the compound         *)
(* commands being executed.  The program is arbitrary: at every point the  *)
(* next command may be a simple one with any status, a jump (break,        *)
(* continue, return, exit), set -e or set +e, or a compound command.       *)
(*                                                                         *)
(* A flowResult travels down the stack one frame at a time; each frame     *)
(* consumes it, changes it or passes it on.  A frame that holds a list of  *)
(* commands first lets the list look at the result of each item.           *)
(***************************************************************************)
EXTENDS Integers, SequencesExt

CONSTANTS
  Statuses,   \* exit statuses
  MaxLevels,  \* bound: the N of break N and continue N
  MaxDepth    \* bound: compound commands within each other

ASSUME StatusesAssumption == {0, 1} \subseteq Statuses /\ Statuses \subseteq 0..255
ASSUME BoundsAssumption == MaxLevels \in Nat \ {0} /\ MaxDepth \in Nat \ {0}

VARIABLES
  stack,     \* the frames, the program first
  mode,      \* what execNode does next
  result,    \* the flowResult in hand
  errexit,   \* state.options.errexit of the shellState in use
  jump,      \* history: the last jump, and the frame that is to catch it
  wanted     \* history: what set last did to errexit outside of conditions

vars == <<stack, mode, result, errexit, jump, wanted>>

\* "run": the top frame wants a command; "item": a command has ended; "end":
\* the list of the top frame has ended.
Mode == {"run", "item", "end", "done"}

Conditions == {"if", "loopCond"}
Loops == {"loop", "for"}
\* "body": a group, or the chosen body of an if or a case.  "function" stands
\* for a sourced file, too.
Lists == {"program", "body", "function", "subshell", "substitution"}
           \cup Conditions \cup Loops
FrameKind == Lists \cup {"andOr", "not"}

\* saved: errexit before the condition, or before the clone of the state;
\* wanted: the same of the history; last: the status of the last round.
Frame == [kind : FrameKind, saved : BOOLEAN, wanted : BOOLEAN, until : BOOLEAN,
          last : Statuses]

JumpKind == {"break", "continue", "return", "exit"}
Flow == [status : Statuses, kind : {"none"} \cup JumpKind, levels : 1..MaxLevels,
         err : BOOLEAN]

Normal(s) == [status |-> s, kind |-> "none", levels |-> 1, err |-> FALSE]
Failed == [status |-> 1, kind |-> "none", levels |-> 1, err |-> TRUE]
Jumping(k, n, s) == [status |-> s, kind |-> k, levels |-> n, err |-> FALSE]

\* A result that lists and conditions return at once.
Stops(r) == r.err \/ r.kind # "none"

Top == stack[Len(stack)]
TopIs(kind) == Top.kind = kind

InCondition == \E i \in 1..Len(stack) : stack[i].kind \in Conditions

-----------------------------------------------------------------------------
(* Where a jump is to arrive, said without the steps that take it there. *)

\* An expansion in $( ) is a program of its own.
Floor ==
  CHOOSE i \in 1..Len(stack) :
    /\ stack[i].kind \in {"program", "substitution"}
    /\ \A j \in (i + 1)..Len(stack) : stack[j].kind # "substitution"

\* The frames that a jump of this kind counts.
Catching(k) ==
  {i \in (Floor + 1)..Len(stack) :
     stack[i].kind \in IF k = "return" THEN {"function"}
                       ELSE IF k = "exit" THEN {} ELSE Loops}

\* The n-th of them from the inside, or the whole program.
Target(k, n) ==
  LET S == Catching(k)
      nth == {i \in S : Cardinality({j \in S : j >= i}) = n}
  IN IF nth = {} THEN Floor ELSE CHOOSE i \in nth : TRUE

NoJump == [kind |-> "none", target |-> 0]

-----------------------------------------------------------------------------
(* Plausible bugs, each in place of the definition it is named after.      *)

\* The comparison is off by one.
CaughtOffByOne(r) ==
  IF r.levels >= 1 THEN [r EXCEPT !.levels = @ - 1]
  ELSE Normal(IF r.kind = "break" THEN r.status ELSE 0)

\* The level is passed on as it is.
CaughtKeepsLevel(r) ==
  IF r.levels > 1 THEN r ELSE Normal(IF r.kind = "break" THEN r.status ELSE 0)

\* A condition that is left early does not put errexit back.
RestoredUnlessStopped(f) == IF Stops(result) THEN errexit ELSE f.saved

-----------------------------------------------------------------------------
(* Commands. *)

Clones == {"subshell", "substitution"}

\* A frame keeps only what its kind puts back.
Blank(kind) ==
  [kind |-> kind, until |-> FALSE, last |-> 0,
   saved |-> kind \in Clones \cup Conditions /\ errexit,
   wanted |-> kind \in Clones /\ wanted]

Init ==
  /\ stack = <<[kind |-> "program", saved |-> FALSE, wanted |-> FALSE,
                until |-> FALSE, last |-> 0]>>
  /\ mode = "run"
  /\ result = Normal(0)
  /\ errexit \in BOOLEAN      \* what the Runner's last Run left
  /\ jump = NoJump
  /\ wanted = errexit

\* A simple command, a case without a match, a definition: a status or an error.
Simple ==
  /\ mode = "run"
  /\ result' \in {Normal(s) : s \in Statuses} \cup {Failed}
  /\ mode' = "item"
  /\ UNCHANGED <<stack, errexit, jump, wanted>>

SetErrexit(e) ==
  /\ mode = "run"
  /\ errexit' = e
  /\ wanted' = IF InCondition THEN wanted ELSE e
  /\ result' = Normal(0)
  /\ mode' = "item"
  /\ UNCHANGED <<stack, jump>>

BreakOrContinue(k, n) ==
  /\ mode = "run"
  /\ result' = Jumping(k, n, 0)
  /\ jump' = [kind |-> k, target |-> Target(k, n)]
  /\ mode' = "item"
  /\ UNCHANGED <<stack, errexit, wanted>>

ReturnOrExit(k, s) ==
  /\ mode = "run"
  /\ result' = Jumping(k, 1, s)
  /\ jump' = [kind |-> k, target |-> Target(k, 1)]
  /\ mode' = "item"
  /\ UNCHANGED <<stack, errexit, wanted>>

\* The grammar: operands of && and || are pipelines, what ! negates a command.
MayOpen(kind) ==
  CASE kind = "andOr" -> Top.kind \in Lists
    [] kind = "not" -> Top.kind \in Lists \cup {"andOr"}
    [] OTHER -> TRUE

Open(kind) ==
  /\ mode = "run" /\ Len(stack) < MaxDepth
  /\ kind \notin {"program"} \cup Conditions
  /\ MayOpen(kind)
  /\ stack' = Append(stack, Blank(kind))
  /\ UNCHANGED <<mode, result, errexit, jump, wanted>>

\* execCondition
OpenCondition(kind, until) ==
  /\ mode = "run" /\ Len(stack) < MaxDepth
  /\ stack' = Append(stack, [Blank(kind) EXCEPT !.until = until])
  /\ errexit' = FALSE
  /\ UNCHANGED <<mode, result, jump, wanted>>

-----------------------------------------------------------------------------
(* Results. *)

Pop == stack' = Front(stack)
Become(f) == stack' = [stack EXCEPT ![Len(stack)] = f]

ListStops ==
  /\ mode = "item" /\ Top.kind \in Lists
  /\ Stops(result)
  /\ mode' = "end"
  /\ UNCHANGED <<stack, result, errexit, jump, wanted>>

ListErrexit ==
  /\ mode = "item" /\ Top.kind \in Lists
  /\ ~ Stops(result) /\ errexit /\ result.status # 0
  /\ result' = [result EXCEPT !.kind = "exit"]
  /\ jump' = [kind |-> "exit", target |-> Target("exit", 1)]
  /\ mode' = "end"
  /\ UNCHANGED <<stack, errexit, wanted>>

ListGoesOn ==
  /\ mode = "item" /\ Top.kind \in Lists
  /\ ~ Stops(result) /\ ~ (errexit /\ result.status # 0)
  /\ mode' \in {"run", "end"}
  /\ UNCHANGED <<stack, result, errexit, jump, wanted>>

\* After any status the next operand may be one that runs: one after && if the
\* status is 0, one after || if it is not.  The others leave the status alone.
AndOr ==
  /\ mode = "item" /\ TopIs("andOr")
  /\ \/ ~ Stops(result) /\ mode' = "run" /\ UNCHANGED stack
     \/ Pop /\ UNCHANGED mode
  /\ UNCHANGED <<result, errexit, jump, wanted>>

\* execPipeline, one command with !
Not ==
  /\ mode = "item" /\ TopIs("not")
  /\ Pop
  /\ result' = IF Stops(result) THEN result
               ELSE Normal(IF result.status = 0 THEN 1 ELSE 0)
  /\ UNCHANGED <<mode, errexit, jump, wanted>>

Body ==
  /\ mode = "end" /\ TopIs("body")
  /\ Pop
  /\ mode' = "item"
  /\ UNCHANGED <<result, errexit, jump, wanted>>

Function ==
  /\ mode = "end" /\ TopIs("function")
  /\ Pop
  /\ result' = IF result.kind = "return" THEN [result EXCEPT !.kind = "none"] ELSE result
  /\ mode' = "item"
  /\ UNCHANGED <<errexit, jump, wanted>>

\* The clone of the state is dropped; the flowResult is not touched.
Subshell ==
  /\ mode = "end" /\ TopIs("subshell")
  /\ Pop
  /\ errexit' = Top.saved /\ wanted' = Top.wanted
  /\ mode' = "item"
  /\ UNCHANGED <<result, jump>>

\* commandSubstitution: an error fails the command, a jump is forgotten; then
\* the command whose words are being expanded goes on.
Substitution ==
  /\ mode = "end" /\ TopIs("substitution")
  /\ Pop
  /\ errexit' = Top.saved /\ wanted' = Top.wanted
  /\ result' = IF result.err THEN Failed ELSE Normal(result.status)
  /\ mode' = IF result.err THEN "item" ELSE "run"
  /\ UNCHANGED jump

Restored(f) == f.saved

\* An if whose condition has ended: return, then, elif, else, nothing.
If ==
  /\ mode = "end" /\ TopIs("if")
  /\ \/ /\ Stops(result)
        /\ Pop /\ mode' = "item"
        /\ errexit' = Restored(Top)
        /\ UNCHANGED result
     \/ /\ ~ Stops(result)
        /\ Become(Blank("body")) /\ mode' = "run"
        /\ errexit' = Restored(Top)
        /\ UNCHANGED result
     \/ /\ ~ Stops(result) /\ result.status # 0
        /\ UNCHANGED stack /\ mode' = "run"
        /\ errexit' = FALSE
        /\ UNCHANGED result
     \/ /\ ~ Stops(result) /\ result.status # 0
        /\ Pop /\ mode' = "item"
        /\ errexit' = Restored(Top)
        /\ result' = Normal(0)
  /\ UNCHANGED <<jump, wanted>>

\* while or until; the loop budget may be exhausted.
LoopCondition ==
  /\ mode = "end" /\ TopIs("loopCond")
  /\ errexit' = Restored(Top)
  /\ IF Stops(result)
     THEN /\ Pop /\ mode' = "item"
          /\ UNCHANGED result
     ELSE IF (result.status = 0) = Top.until
     THEN /\ Pop /\ mode' = "item"
          /\ result' = Normal(Top.last)
     ELSE \/ /\ Become([Blank("loop") EXCEPT !.until = Top.until]) /\ mode' = "run"
             /\ UNCHANGED result
          \/ /\ Pop /\ mode' = "item"
             /\ result' = Failed
  /\ UNCHANGED <<jump, wanted>>

\* What a loop makes of a break or a continue.
Caught(r) ==
  IF r.levels > 1 THEN [r EXCEPT !.levels = @ - 1]
  ELSE Normal(IF r.kind = "break" THEN r.status ELSE 0)

\* The loop returns: break, an outer loop's continue, return, exit, an error.
LoopLeft ==
  /\ mode = "end" /\ Top.kind \in Loops
  /\ \/ /\ result.kind \in {"break", "continue"}
        /\ result.kind = "break" \/ result.levels > 1
        /\ result' = Caught(result)
     \/ /\ result.kind \in {"return", "exit"} \/ result.err
        /\ UNCHANGED result
  /\ Pop
  /\ mode' = "item"
  /\ UNCHANGED <<errexit, jump, wanted>>

\* The round has ended, or its continue is caught.
RoundEnds ==
  /\ ~ result.err
  /\ \/ result.kind = "none" /\ UNCHANGED result
     \/ result.kind = "continue" /\ result.levels = 1 /\ result' = Caught(result)

LoopAgain ==
  /\ mode = "end" /\ TopIs("loop")
  /\ RoundEnds
  /\ Become([Blank("loopCond") EXCEPT !.until = Top.until, !.last = result'.status])
  /\ mode' = "run"
  /\ errexit' = FALSE
  /\ UNCHANGED <<jump, wanted>>

\* for: the next value, if there is one.
ForNext ==
  /\ mode = "end" /\ TopIs("for")
  /\ RoundEnds
  /\ \/ mode' = "run" /\ UNCHANGED stack
     \/ mode' = "item" /\ Pop
  /\ UNCHANGED <<errexit, jump, wanted>>

\* The next round of a for may find the loop budget exhausted, or its variable
\* readonly.
ForFails ==
  /\ mode = "end" /\ TopIs("for")
  /\ ~ result.err /\ result.kind \in {"none", "continue"} /\ result.levels = 1
  /\ result' = Failed
  /\ Pop /\ mode' = "item"
  /\ UNCHANGED <<errexit, jump, wanted>>

ProgramEnds ==
  /\ mode = "end" /\ TopIs("program")
  /\ mode' = "done"
  /\ UNCHANGED <<stack, result, errexit, jump, wanted>>

Terminated == mode = "done" /\ UNCHANGED vars

Command ==
  \/ Simple
  \/ \E e \in BOOLEAN : SetErrexit(e)
  \/ \E k \in {"break", "continue"}, n \in 1..MaxLevels : BreakOrContinue(k, n)
  \/ \E k \in {"return", "exit"}, s \in Statuses : ReturnOrExit(k, s)
  \/ \E kind \in FrameKind : Open(kind)
  \/ OpenCondition("if", FALSE)
  \/ \E until \in BOOLEAN : OpenCondition("loopCond", until)

Deliver ==
  \/ ListStops \/ ListErrexit \/ ListGoesOn
  \/ AndOr \/ Not
  \/ Body \/ Function \/ Subshell \/ Substitution
  \/ If \/ LoopCondition \/ LoopLeft \/ LoopAgain \/ ForNext \/ ForFails
  \/ ProgramEnds

Next == Command \/ Deliver \/ Terminated

Spec == Init /\ [][Next]_vars

-----------------------------------------------------------------------------
\* Types of execNode's flow results and of the commands in execution: one
\* program at the bottom, && and || only around pipelines and commands.
TypeOK ==
  /\ stack \in Seq(Frame) /\ stack # << >> /\ Len(stack) <= MaxDepth
  /\ \A i \in 1..Len(stack) : stack[i].kind = "program" <=> i = 1
  /\ \A i \in 2..Len(stack) : stack[i].kind = "andOr" => stack[i - 1].kind \in Lists
  /\ mode \in Mode /\ result \in Flow /\ errexit \in BOOLEAN /\ wanted \in BOOLEAN
  /\ mode = "end" => Top.kind \in Lists
  /\ mode = "run" => ~ Stops(result)

\* A jump that is consumed is consumed by the frame it was meant for when it
\* was issued: break N and continue N by the N-th loop whose BODY encloses
\* them (through functions, groups and subshells, never through a $( )),
\* return by the innermost function or sourced file, exit by the program.
JumpsArrive ==
  [][result.kind # "none" /\ (result'.kind = "none" \/ mode' = "done")
       => Len(stack) = jump.target]_vars

\* Outside of conditions errexit is what the script last set it to outside of
\* conditions, in whatever way (break, return, error) conditions, subshells
\* and substitutions were left.
ErrexitAsSet == ~ InCondition => errexit = wanted

\* doc.go:1-2: the language is Bash/POSIX-compatible, and contexto/001:20-21:
\* a subshell is isolated by a clone of the state.  So exit in a subshell ends
\* the subshell.
SubshellContainsExit ==
  [][TopIs("subshell") /\ Len(stack') < Len(stack) => result'.kind # "exit"]_vars

=============================================================================
