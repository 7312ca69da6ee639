# TLA+ models of go-portable-shell

`go-portable-shell` (Go package `portablesh`) embeds a bounded POSIX-like shell
in a Go program: the embedder creates a `Runner`, hands it scripts, and gets
errors, events and output back. This directory holds TLA+ models of the parts
of it whose correctness is hard to test, the TLC runs that check them, and
proofs checked by TLAPS. Every definition is translated from the Go source;
`PROJECT.json` maps it to its lines.

## The system

| component | files | state | operations |
| --- | --- | --- | --- |
| Runner, Run lifecycle, traps | `types.go`, `api.go`, `execute.go` | `shellState`: traps, `inTrap`, `last`, budget | `Run`, `RunProgram`, `runTrap`, `finishFlow`, `Snapshot`/`Restore`/`Clone` |
| Execution budget | `limits.go`, `brace.go` | four atomic counters | `consumeCommand`, `consumeLoop`, `acquireOpenFile` and its release, the brace counter |
| Control flow | `execute.go` (`execNode`) | flow results, `errexit`, depth counters | lists, and-or, if, loops, case, groups, functions |
| Pipelines | `execute.go` (`execPipeline`) | goroutines, `io.Pipe`s, a private context, results | start, read, write, end, cancel, close, choose the status |
| Host processes | `external.go`, `process_unix.go`, `process_windows.go` | process group, copiers, `WaitDelay` | start, kill, wait |
| Dispatch and policy | `execute.go` (`execSimple`), `builtins.go` (`command`) | hash table | expand, check policy, redirect, choose what runs |
| Redirections | `execute.go` (`applyRedirects`) | descriptor table, open files | open, duplicate, close |
| Variables and scopes | `variables.go`, `builtins.go`, `builtins_extra.go` | `env`, `exported`, `readonly`, `locals`, `position` | assign, unset, export, readonly, local, set, shift, call, source |
| Expansion | `expand.go`, `brace.go`, `pattern.go`, `arithmetic.go` | `limitedBuffer` of `$(...)` | parameters, substitution, splitting, globbing, braces, arithmetic |
| Lexer and parser | `lexer.go`, `parser.go`, `ast.go` | none shared | text to tree |
| Portable utilities | `builtins_portable_*.go`, `portable_fs.go` | the file system | mkdir, rm, cp, mv, cat, head, tail, find, grep, ... |
| Lookup, translation | `path.go`, `translate.go` | none | `RootDir`, `PATH`, `apt` mappings |

How they interact. `RunProgram` installs a budget and walks the tree with
`execNode`. A pipeline gives each stage a goroutine and a **clone** of
`shellState`; the clones share only the budget (atomics), the output limiters
and the observer (mutexes), and the pipes. Subshells and `$(...)` also work on
a clone, in the same goroutine. Functions and sourced files work on the same
`shellState` and put back what they changed. Cancellation is a
`context.Context` that every pipeline derives anew; a host process is killed
with its process group.

What is hard, and what makes each part correct:

- *Budget*: atomic Adds of several goroutines interleave and refusals take two
  steps. Limits hold, counts are exact, slots are returned on every path.
- *Pipelines*: unbuffered pipes that ignore the context, errors, exits and
  cancellations in any order, output thrown away by `WaitDelay`. No deadlock,
  no lost error, no private cancellation shown to the caller, no silent loss.
- *Scopes*: saved values in two places that are restored at different times.
  Each command sees what dynamic scoping promises, whatever came before.
- *Run lifecycle and output*: a context that dies at any moment, traps that may
  fail or exit, goroutines that write to one bounded stream whose writer is slow
  and may fail. Traps run when they must, and the returned error tells the truth.
- *Control flow*: eleven kinds of frames that consume, change or pass on one
  flow result. A jump arrives where it should, and `errexit` is what was set.
- *File utilities*: sequences of calls each of which may fail. No operand is
  lost half way, success means done, nothing else changes.
- *Dispatch and redirections*: four places choose what runs, three of them
  after the words have changed; descriptors 0 to 2 are kept twice. The policy
  sees what runs, each command uses the descriptors its text gives it, and a
  file is open exactly as long as its command.
- *Lexer and parser*: reserved words, quotes, comments, heredocs and nesting. A
  script is parsed into the tree it was written from.
- *Expansion and getopts*: small algorithms over text with many special cases.
  Each computes what its notation means.
- *Capture*: the buffer of `$(...)`, written by several goroutines without a lock.

The hazards in `PROJECT.json` list the places at which each of these bites.

## The modules

| module | role | models |
| --- | --- | --- |
| `Quota` | abstract | what the `Max*` fields of `Config` promise |
| `Budget` | detailed | `executionBudget`, implements `Quota` |
| `MCBudget`, `BudgetProofs` | instance, proofs | |
| `Pipeline` | detailed | `execPipeline`, `runExternal` and `os/exec`'s waiting |
| `MCPipeline`, `PipelineProofs` | instance, proofs | |
| `DynamicScope` | abstract | a stack of scopes, each with bindings and arguments |
| `Scopes` | detailed | one map of variables and saved values, implements `DynamicScope` |
| `MCScopes`, `ScopesProofs` | instance, proofs | |
| `RunLifecycle` | detailed | `RunProgram`, `runTrap`, `finishFlow` |
| `LimitedSink` | abstract | what `MaxOutputBytes` promises of a stream |
| `Output` | detailed | `outputLimiter` and its lock, implements `LimitedSink` |
| `RunOutput` | composition | `RunLifecycle` with an `Output` for each Run, implements `RunLifecycle` |
| `MCRunOutput` | instance | |
| `RunOutputProofs` | proofs | of `Output`, `RunLifecycle` and `RunOutput` |
| `Capture` | detailed | `limitedBuffer` of `$(...)` under a pipeline |
| `ControlFlow` | detailed | `execNode`, `execCondition`, `commandSubstitution`'s flow, the jumps |
| `ControlFlowProofs` | proofs | |
| `FileOps` | detailed | `mkdir`, `rmdir`, `rm`, `cp`, `mv`, `touch` |
| `FileOpsProofs` | proofs | |
| `DescriptorTable` | abstract | the descriptors a script sees |
| `SimpleCommand` | detailed | `execSimple`, `applyRedirects`, `builtinCommand`, translation; implements `DescriptorTable` |
| `MCSimpleCommand` | instance | |
| `SimpleCommandProofs` | proofs | |
| `Lexer`, `Parser` | operators | `lex`, `Quote`, `Join`; `Parse` |
| `Scripts` | reference | writes a tree as a script, in several styles |
| `Subject` | shared | the input that an algorithm is given |
| `Arithmetic`, `Patterns`, `Braces`, `Ranges`, `Fields`, `Parameters`, `Getopts` | operators | `$((...))`, patterns, `{a,b}`, `{1..9}`, fields, `${...}`, `getopts`, each beside a reference definition |
| `Algorithms` | compares | the operators with their references |
| `AlgorithmsProofs` | proofs | of `Ranges`, `Patterns`, `Fields`, `Parameters` and `Getopts` |
| `MCScripts` | inputs | trees of every kind of node and styles of writing |
| `MCAlgorithms` | instance | |

### Budget

`counter` holds `commands`, `loops` and `braceResults` (`granted` is history),
`openFiles` the fourth counter. `slot[<<w, i>>]` is the `i`-th file goroutine
`w` has reserved: files are opened and closed in nested order (deferred
`closeAll`). Each atomic Add is one action: `Consume` (add and compare the
value Add returned), `Reserve` and, for a refusal, `RollBack`; `OpenFile`,
`OpenFails`, `CloseFile`, `Release` are the way of a slot through
`applyRedirects` and `releaseCloser`. A goroutine that is refused a consumable
unit unwinds; one refused a file unwinds or goes on.

### Pipeline

One goroutine per stage (`pc`), one `io.Pipe` per gap. A blocked Read or Write
is a member of `reading` or `writing`; `Transfer`, `ReadEOF` and `WriteBroken`
are the three ways in which it ends. A shell stage that is blocked can do
nothing else. A host process (`External`) reads and writes through copiers: it
can end or be killed while they are blocked, and `DrainTimeout` is
`WaitDelay`. `Ended`, `Cancel`, `CloseOut`, `CloseIn` are the end of a stage in
the order of the deferred calls. `Decision` is the code after `wg.Wait`.
Stages may end with any status, an uncaught `exit` or `break`, or an error.
Data is abstracted to the fact that something is read or written.

### DynamicScope and Scopes

`layers` puts the `old` maps of `overlayAssignments` (on the Go stack) and the
frames of `state.locals` in the order in which they will be restored. A
function call pushes a prefix layer and a function layer, `source` one layer.
A shellState belongs to one goroutine, so each operation is one action. Every
builtin takes the `prefix` that `execSimple` overlays before it and restores after
it: `Restored` is that restore, of what the builtin has made of the variables.
The refinement mapping reads a scope's binding of a name from the next layer that
saved it. `readonly` has no counterpart in the abstract module: an operation it
refuses is a stutter. What a builtin does to a name of its own prefix is lost with
the restore, except for two marks that the restore does not touch, `readonly` and
the frame of `local`. The second makes one kind of step none of a stack of scopes:
`local x` under a prefix assignment to `x` that ends before the function does, of
the builtin itself or of a file the function sources. `StackOfScopes` allows that step
(`LocalUnderPrefix`) and says what it does: the caller is left with the temporary
binding and the function gets the caller's.

### RunLifecycle

`phase` is the line of `RunProgram`; in the phases that execute script code the
script may set traps, set `$?` and write too much, and it ends with any flow
result. `ctx` dies at any moment of a Run. `history` remembers what the context
was when the program ended and which traps were wanted and run.

### LimitedSink, Output and RunOutput

`Output` is one `outputLimiter`. `request[w]` is the Write a goroutine is in;
`Lock` takes the mutex and decides how much passes, `Pass` is the writer behind
getting one byte, `Return` and `Fail` are the two ways out. `exceeded` is set at
`Lock` and `written` at the end, as in the code, so in between they do not fit
together; `settled` (history) is what `Err` would see when the lock is free, and
the refinement mapping shows `LimitedSink` no more than that. `lost` is history:
a Write has reported a byte that did not pass.

`RunOutput` is `RunLifecycle` with that stream. What `RunLifecycle` leaves to
chance (`ExceedOutput`) is done by Writes; `Advance` needs `Quiet` because
`execPipeline` waits for its stages before it returns; `Begin` makes the new
limiter. Standard output and standard error have a limiter each, of the same
code; one is modelled.

### Capture

`limitedBuffer.Write` in three steps: measure what remains, read the slice of
the `strings.Builder`, store a longer one. This is what the data race can
produce at least; Go promises nothing about it.

### ControlFlow

`stack` is the recursion of `execNode`: one frame per compound command, function
or sourced file, subshell and `$(...)` that is being executed. `mode` says
whether the top frame wants its next command (`"run"`), a command has just
returned `result` to it (`"item"`), or its list has returned (`"end"`). A frame
that evaluates a condition becomes the frame of the body it selects. The program
is arbitrary: `Command` is whatever the script says next. `jump` and `wanted`
are history: the frame a jump was meant for, found by `Target` from the whole
stack when it is issued, whereas the code counts its levels down frame by frame;
and what `set` last did outside of conditions.

### FileOps

`tree` maps every path to nothing, a directory, a file or a link; the content
of a file is the path it had at first, or torn. Each `...Calls` operator gives
the outcomes of one FileSystem call: it may always fail, and `RemoveAll` and
`MkdirAll` may stop half way. `pc` is the call the builtin makes next and
`todo` holds the calls of `copyPortablePath` not yet made, so that an error in
one drops them all. `begun` is the tree when the operand was begun. Because the
properties are invariants they hold at every call, that is, also if the
program is killed there.

### DescriptorTable and SimpleCommand

`frames` are the simple commands in progress, one inside the function, sourced
file, pipeline or `$(...)` of the other. A frame goes through the steps of
`execSimple`: `words` (expansion and policy), `redirect` (the loop of
`applyRedirects`), `dispatch`, for `command` and `exec` the steps of
`builtinCommand`, `handlers`, and `body` or `end`. `std` are the fields `in`,
`out` and `err` of `streams`, `fds` is its map; `Copied` is `cloneStreams`,
`Synced` is `syncStandardDescriptors`. `approved` and `did` are history: the
words the policy has seen last, and what ran. What a command does to its files,
and the errors that carry no state, are one nondeterministic failure.

The abstract module has one table per command: a command starts with the table
of the command it runs in, and uses what its own redirections have made of it.
Its `PassedOn` states two things the code does and a shell would not: a closed
standard descriptor comes back as empty input or dropped output in nested
commands, and `0<>` loses its write side there.

### Lexer, Parser and Scripts

Text is a sequence of units: a character, or a run of letters or digits that
the lexer takes as a whole wherever it takes one of them. `Lexer` returns
tokens, `Parser` nodes as records, each operator with the place after what it
has taken or an error; `depth` is the parser's own counter. `Scripts` goes the
other way: it writes a tree as a script, in a style that chooses separators,
blanks, comments, quotes, `(` before patterns, `function`, and heredocs, and so
knows what `Parse` has to return. It is the reference; the two share only the
records of the nodes.

### Arithmetic, Patterns, Braces, Ranges, Fields, Parameters, Getopts

Pure operators, translated function by function; text is a sequence of
characters or tokens. The reference definitions beside them say what the
notation means without the way in which the code finds it: an expression as a
tree, a pattern as the set of texts it stands for, a word with braces as a
sequence of choices, a range as a set of numbers, a parameter operator as a row
of POSIX's table, a command line as its list of options. `Algorithms` enumerates
the inputs as initial states. `Ranges`, `Patterns`, `Fields`, `Parameters` and
`Getopts` are recursive functions over numbers and are proved about; the others
descend into trees and tokens with RECURSIVE operators and are only
model-checked. `AllOptions`, the loop over `getopts`, counts its calls up to the
number of characters of the words, since a call that finds an option takes at
least one; that this is enough is part of what is proved. An
expression of `Parameters` is a chain of uses, each the operand of the one
before, that ends in a text: `${x:-${y=w}}`.

## The runs

| run | checks | bounds |
| --- | --- | --- |
| `budget` | `TypeOK` `LimitsKept` `SlotsAccounted` `RefusalJustified` `RefinesQuota` | 4 goroutines, 2 nested files each, 3 file slots, 2 commands, 1 brace result |
| `pipeline` | `TypeOK` `InternalCancelStaysInside` `NoErrorSwallowed` `LossIsReported` `NoCircularWait` `CancelledPipelineReturns` | 3 stages, the middle one a host process, statuses 0 and 1, pipefail or `!` |
| `scopes` | `TypeOK` `StackOfScopes` | 1 name, 2 calls nested, of which 1 may be a source |
| `run_lifecycle` | `TypeOK` `TrapsMatchAnswer` `AnswerTellsTruth` `RefinesRunLifecycle` `RefinesSink` | statuses 0 and 1, 2 goroutines writing 2 bytes each time, 3 bytes allowed; any number of Runs |
| `capture_race` | `CapturedWithinLimit` (violated) | 2 goroutines writing 2 bytes each time, 3 bytes allowed |
| `control_flow` | `TypeOK` `ErrexitAsSet` `JumpsArrive` | 3 nested compound commands, levels 1..2, statuses 0, 1 |
| `subshell_exit` | `SubshellContainsExit` (violated) | 2 nested compound commands |
| `file_ops` | `TypeOK` `OperandSurvives` `SuccessMeansDone` `NoClobberLosesNothing` `NothingElseTouched` | any tree of 3 entries, 2 names, paths of 3 names, 2 sources, at most 1 link |
| `copy_onto_itself` | `CopyLeavesSource` (violated) | trees of 2 entries |
| `simple_command` | `TypeOK` `ApprovedBeforeEffect` `FilesOutliveUse` `RefinesDescriptorTable` | 2 nested commands, 2 redirections, descriptors 0, 1, 3, 2 files |
| `algorithms` | `ScriptsParseBack` `JoinedArgumentsReturn` `OptionsComeInOrder` `ArithmeticMeansTree` `RemovalIsExtreme` `ReplacesLeftmostLongest` `BracesGiveEveryChoice` `RangeIsComplete` `OnlyRestOfAtIsLost` `ParametersMeanTable` | every kind of node in every other one, nesting to 4 with a ceiling of 3; 3 arguments out of 18; 3 words of options out of 12; integers of 3 and 4 bits, 2 or 3 operators, patterns of 4 and texts of 3 characters, words of 3 parts, parameter operators nested once |
| `literal_word` | `LiteralWordsSurvive` (violated) | patterns of 2 characters |

Why the bounds are enough. *budget*: four goroutines and three slots let one
refusal's transient Add cause another's, while all slots are held;
`CounterBound` cuts off only counters far beyond the limits. Goroutines are
interchangeable, so symmetry is sound (no liveness is checked there).
*pipeline*: three stages are the first size with a stage that has neighbours on
both sides, and of a status the code asks only whether it is 0; the proofs
cover every size and every status. *scopes*: no operation relates two
names; two nested calls let a frame lie above and below a prefix layer of the same
name, each as a function's or a source's; the proofs cover any names, values
and depth. *run_lifecycle*: with 3 bytes allowed the first Write of 2 passes, the second is
cut off and the third dropped, or the second goes on from where one that failed
stopped; a third writer would only wait. Writers are interchangeable, and the
properties are safety properties, so symmetry is sound; the proofs cover any
writers, sizes and limit. *control_flow*: below the program
there is room for two loops and one more frame between, around or inside them,
so `break 2` meets every pair of frames on its way; no frame looks further than
its neighbour, and statuses matter only as zero or not; the proofs cover any depth,
levels and statuses. *file_ops*: three
entries are a source with one child and a destination, or two sources; paths of
three names let a directory be moved or copied into another one, and a path
that gets longer is refused like one beyond `PATH_MAX`. `Aliasing` is FALSE:
operands of `cp` and `mv` that name one file twice, or a file and its own
directory, are left out, because the finding below is that the code does not
notice them. The proofs cover any names, length of paths, number of entries and
operands; the one link in the working directory is `Init`'s. *simple_command*: a nested command takes its table from one frame
only, so two are enough; two redirections are the least number of which one
can undo, duplicate or follow the failure of another, in one command or in
two; descriptor 3 stands for those above 2, 1 for 2; the proofs cover any nesting,
files, commands and number of redirections. *algorithms*: 3-bit
integers wrap, divide and overflow as 64-bit ones do, and two binary operators
are what precedence and grouping are about (the reference takes a result modulo
2^Width and a quotient by its remainder, and so does not share the code's `Wrapped`
and `Quotient`); an unquoted `$@` has no, one, two or three values; a class of a pattern needs four
characters to hold a `]` or a `!`; 4-bit ranges cover all starts, ends and
steps. The parser looks two tokens ahead, so every construct in every other one,
with a command, a quoted reserved word or a heredoc next to each of its reserved
words, shows what it can take for another; deeper trees only repeat that, up to
the ceiling, which is 3 here and 256 in the code. A word of options is a group of
up to two letters with an argument, and a call looks at one word and the next.

Deadlock is checked in every run but `capture_race`, which stops when both writers
are done; a finished Run or pipeline stutters
(`Terminated`), and so does an input of `Algorithms`.

**Fairness** (used by `CancelledPipelineReturns` only). The Go scheduler runs every goroutine that
can move (`PipeStep`, `Return`), the kernel delivers SIGKILL and the
`WaitDelay` timer fires, and deferred calls run (`StageMust`): weak fairness.
A shell stage that is not blocked for ever reaches a check of its context
(`ShellStops`, strong fairness, because reads and writes in between disable
it): `execNode` checks before every node and the utilities in their copying
loops. That no command ends by itself is allowed, so the property does not rest
on scripts that terminate. What is assumed away: a builtin blocked on `Run`'s
own stdin, and handlers of the embedder that ignore their context.

## What the findings say

- `subshell_exit`: `(exit 3); echo after` ends the program: the clone isolates
  the state of a subshell, not its flow of control.
- `copy_onto_itself`: `cp a b` where `b` is a link to `a` empties `a` and
  succeeds. For the same reason (names are compared, and only for a target
  inside the source) `mv a/a .` destroys a file `a/a` together with `a`.
- `literal_word`: patterns are compiled byte by byte, so one with an accented
  letter never matches the text it spells, in `case` and in `${x#p}`; and the
  lexer takes the second byte of some letters for a space, so that `echo voilà`
  is a syntax error.
- `capture_race`: with `f() { a | b; }`, in `x=$(f 2>&1)` two stages write to one
  `limitedBuffer`, which has no lock: `x` can be longer than
  `MaxCommandSubstitutionBytes`.

Seen while modelling, and stated in no run:

- a stage's `exit`, `break` or `return` decides a pipeline before `pipefail` is
  looked at (`execute.go:302`, contrary to the comment at `types.go:74`);
- `f() { x=1 local x=2; }` loses its local at once, and when `f` has returned, its
  caller has `x=1`, exported: `rememberLocal` saves the temporary value of the prefix
  (`variables.go:30`, `execute.go:412`), although a prefix assignment ends with its
  command (`builtins_test.go:28` and `36`). `f() { x=1 source ./lib; }` with `local x`
  in the file does the same. In `scopes` this is the step `LocalUnderPrefix`;
- the effect of a builtin on a name of its own prefix is undone by the restore:
  `x=1 export x`, `x=1 unset x` and `x=1 read x` change nothing, while
  `x=1 readonly x` makes the value of before readonly;
- `x=1 f` with `readonly x` in `f` changes a readonly variable when `f` returns;
- `mv` removes an existing target before it finds out that its source does not
  exist; `rmdir` removes files;
- after `set -- a b`, `echo $@` prints `a` and `for x in $@` runs once: without
  quotes a word takes the first of the parameters and drops the others
  (`expand.go:71`), although `COMPATIBILITY.md:15` lists the special parameters as
  supported; `OnlyRestOfAtIsLost` says that splitting loses this and no more;
- `"$@"` without positional parameters gives one empty field instead of none, and `$a$b` joins the two values
  even where one ends in a separator;
- `$(...)` passes on none of the descriptors above 2, and `command` and `exec`
  give handlers and host commands no descriptor table;
- `{a}{b,c}` is left as it is, since the first closed brace is the only one
  looked at; a range with the step MinInt may stop one number early;
- a comparison cannot be followed by another one without parentheses, and the
  right side of `&&` and `||` is evaluated, with its errors, in any case;
- `set -u` is asked for `$x` only, not for `${#x}` or `${x%p}`;
- `*` and `?` match no newline, so `case $x in *)` misses a value of two lines;
- the lexer: a continued line that goes on with a blank is a syntax error; in
  double quotes a backslash before a backquote stays; `echo }`, `echo {` and
  `echo !` are syntax errors, while `{ echo a }` is accepted; `$(case x in a) ...)`
  ends at the pattern's parenthesis;
- the parser accepts empty lists (`if then fi`) and no redirections behind
  compound commands;
- `Join("if", ...)` leaves a reserved first word bare;
- `getopts` keeps an offset into a word: after `set --` with a shorter word in
  its place the next call panics with an index out of range, and `OPTIND=1`
  starts nothing again while the place is still in the first word; an illegal
  option sets `OPTARG` also when errors are not silent;
- `Config.Stdout` and `Config.Stderr` have a limiter and so a lock each: an
  embedder who gives one writer for both gets concurrent Writes.

## What is proved

All proofs are for every value of the constants under the assumptions named in
`Budget`, `Pipeline`, `RunLifecycle`, `RunOutput`, `ControlFlow`, `SimpleCommand`,
`Scopes`, `FileOps`, `Ranges`, `Patterns`, `Fields`, `Parameters` and `Getopts`
(finitely many goroutines and file names; at least two stages; statuses 0..255 that include 0 and
1; bounds above 0; sizes that are numbers; descriptor 0 is one of the descriptors, `command` and `exec` are
builtins, commands are sequences of words, files are none of the other streams; the greatest int is
above 0; the values of a part of a word are texts, only `"$@"` and `$@` have several, and a
literal is none of them; an
expression is a finite chain of `$x` and the eight operators that test a parameter;
the arguments of `getopts` are texts).

*BudgetProofs.* `IInv` adds to the types that the counter is exact
(`CounterIsExact`) and what a refused request says about the counter.
`FilesWithinLimit` is not inductive: a reservation compares the counter, not the
number of slots, so one needs to know that the counter is never below the slots
held. Each action lemma counts with `FS_AddElement`, `FS_RemoveElement`.
`Refinement` maps a step to `Take`, `Give`, `Grant` or a stutter.

*PipelineProofs.* `IInv` is `TypeOK` with five parts: pipe ends close exactly
when their stage passes its Close (`EndsFollowStages`); a dead context has a
cause, which is a stage error unless the parent died (`Causes`); an error
cancels before its stage closes (`ErrorsCancel`); a Write left behind belongs
to a stage whose status is not 0 (`LossKnown`); what was answered
(`Answered`). `InternalCancelStaysInside` needs `Causes`: among the results
there is an error that is not `context.Canceled`, and `Decision` finds it.
`DeadlockFree` picks the smallest stage that has not ended: with a blocked
stage to its left finished, its Read sees EOF; a chain of blocked Writes ends at
a reader that either reads or has closed. The minimum and maximum of a set of
stages come from the well-foundedness of inclusion on finite sets.

*RunOutputProofs, the Run.* None of the properties is inductive: they speak of
the end of a Run, and what makes them true happened phases earlier. `IInv` adds
to `TypeOK` that a context stays dead with the error it had when the program
ended (`StaysDead`); that until `RunProgram` comes to the signal traps, the one
the error calls for is still set, and from then on has run (`TrapsWanted`); that
a signal's trap ran only under its own error (`TrapsRan`); and that what was
answered agrees with the context, the limiter and `$?` (`Answered`).

*RunOutputProofs, the stream.* `StreamImplementsSink` needs to know what has passed of the Write that
holds the lock: the sink is what it was when the lock was last free plus that
Write's bytes (`settled`, `passed`), `written` counts the sink up to then unless
there is no limit, and `exceeded` is set exactly if some Write was or is being cut
off. Only `Return` and `Fail` change what the mapping shows, and both append one
Write, whole or cut off. `LossIsSeen` ties `lost` to `exceeded`.

*RunOutputProofs, the composition.* The stream's invariant (`StreamInv`) is stated
of the composition's own variables, so the step lemma of `Output` is cited for a
Write, and `NextInv` of the Run for everything else. `LifecycleRefined` shows that a step of
the stream is `ExceedOutput` or a stutter for the rest of the Run;
`AnswerIsTrue` needs both invariants, since `lost` is the stream's and the answer
is the Run's.

*ControlFlowProofs.* A step leaves the stack of frames alone, pushes one, replaces
the top or pops it, and there is one lemma for each. `Keeps` says what the frames
have saved: below the first condition a clone puts back an `errexit` that was as the
script had set it, the first condition puts back what the script last set, and a
clone above it leaves that alone; `ErrexitAsSet` alone says nothing while a condition
is on the stack. `JumpKnown` says that the frame a jump was issued for is the one its
kind and level name at every later moment: popping a frame that does not catch it
leaves the target where it is (`PopPassesOn`), popping one that does leaves one frame
less to count (`TopCatches`, by cardinality), and a `$(...)` is its own bottom
(`FloorTakesAll`). A jump is then consumed exactly there (`Consumed`).

*SimpleCommandProofs.* A step begins a command, replaces the innermost or ends the
innermost; `AppendInv`, `BecomesInv` and `LeaveInv` prove once what each of these
keeps, and every action only says which of them it is. `IInv` adds to the types
and to `FilesOutliveUse` how far each command is and what the policy has seen of it
by then (`Seen`): before it runs, the words seen are its own, or, after `command`
and `exec` have been taken off, its own with these in front (`Behind`).
`ApprovedBeforeEffect` alone says nothing of a command that is still being
dispatched. The files held by a nested command are those of the commands around it,
so closing the innermost command's files leaves no stream of another dangling.

*SimpleCommandProofs, the table of descriptors.* `OneTable` adds to that invariant that the fields are what
the map says from the moment the streams are cloned (`InLine`). Before that the
fields may differ from the map (a pipe or the buffer of a `$(...)` replaces the
fields only), which is why the mapping shows such a command with the table the copy
will have. `GivenIsPassedOn` is the heart: what a new command is given, copied, is
what `DescriptorTable` passes on, in each context.

*ScopesProofs.* `IInv` says how the layers lie: the locals of a call directly on its
prefix assignments, both with the arguments of the caller (`Paired`), and as many of
each kind as the depth counters say. `TypeOK` alone is not inductive: a return pops
two layers, and only `Paired` knows that the lower one is a prefix, so that all three
counts go down together. `OneStack`, that one map with saved values is a stack of
scopes, works on `View`, the mapping as a function of the layers, values, exported
names and arguments, so that the state before and after a step, and the one between
the two layers of a call, are views of the same kind. A name's binding in a scope is
what the next layer that saves it has saved (`NextAbove`), or the current value
(`NoneAbove`). From this follow the four things that can happen: the current value of
one name changes, which the innermost scope that binds it sees and no other
(`CurrentChanges`); the arguments change; a first `local` of a name saves it in the
innermost frame; and a layer is put on or taken off. A layer is a lid
(`IsLid`) when it has saved for its names what the variables are without it: then
all scopes below are the same with it and without it (`OneMore`), and both saving
(`Covered`) and restoring (`Uncovered`) make lids. A call is two lids, and a return
takes both off, in which the arguments are the same by `Paired`. A builtin under a
prefix changes the variables in one name at most, since the restore gives the
others back what they were (`BuiltinChanges`); so the prefix matters to `local`
only, where what the frame saves need not be the current value. If no layer
above the frame has saved the name and no prefix has it, the scope gets a new
binding and the caller's stays (`LocalOpens`). Otherwise the frame's own binding is
now read from the layer above, or from the variable as it was restored, that is,
the caller's, and the caller's is read from the frame (`LocalDisplaces`). These are
the outcomes of `LocalMapped`, and the last is the exception in `StackOfScopes`.

*FileOpsProofs.* `TypeCorrect` holds in any case; the four other properties assume
`Aliasing = FALSE`, as the run does, because without it they are false (see the
findings). Three of them, as predicates of a tree, are `Secure`, and none is inductive: `mv`
removes its source at the end, and that it may do so rests on every call of the copy
before. `IInv` adds `Phase`, what is known before each call. For `mv`: outside of
the target's entry only directories have been made, and no link lies at it or below
it (`MvMoving`); the operand still leads to where it led at the beginning
(`Resolved`); the calls in `todo` copy parts of the source that do not overlap
(`Listed`); and every file of the source is in one of these parts or is at its place
below the target (`Delivered`). With `todo` empty, `Delivered` is what
`MvUnlinks` needs. For `cp` (`CpCopying`): links are what they were, outside of the
target only directories have been made, and with `-n` no file at all has changed.
Links stay shallow (`Shallow`): one in the working directory is met at the first
name of a path only. The provers have no induction over
paths: `PathInduct` is proved from a least counterexample (`LeastOf`), with a set in
the place of a predicate, and gives the lemmas on `Followed` by which a path resolves
in the tree after a call as before it.

`SuccessTrue` needs more, a second invariant on top of `IInv`. For `cp` it is `Listed`
and `Delivered` again: the copy of a directory is the same argument, from two facts
which both commands have, that the source is read as it was (`Readable`) and that no
link is met below the target (`Straight`). For `mv` the path of the target must name
the same place when the source is gone as it did before (`Arrived`), and an earlier
operand may have been a link: it now lies in the destination. So links are in the
working directory or are entries of the directory moved to (`DestLinks`), which is too
deep for a link on the way there. A link at the first name of the destination could
only be carried off by moving that link itself, to a place below where it leads,
which is what `Aliasing = FALSE` leaves out (`HomeStays`); and when the operand is a
link, its files are reached through it where they always were (`RenamedArrives`). A destination that is no directory
takes one operand (`Single`), so nothing comes after. What is kept of this as long as
no call has failed is `Placing`. TLC found both invariants to hold on the instance of
`file_ops` before they were proved.

*AlgorithmsProofs.* The algorithms are recursive functions, and the provers know of
such a function only that it is some function that satisfies its equation, if there
is one. So for each of them it is proved first that there is one, from a function
with one value more or less (`IterationExists`, `BackwardExists`, `ForwardInExists`),
and then what its values are, by induction over its argument. Induction takes the
set of the numbers of which the claim holds (`NatInduct`, `DownInduct`, `UpInduct`,
all from `LeastOf`), so what the algorithms compute is proved for inputs of any
length. The theorems are about the subjects of one kind (`RangeInit`, `PatternInit`,
`WordInit`, `ParametersInit`, `OptionsInit`), which are disjuncts of `Algorithms`'
`Init`.

- `RangesComplete`: as long as the loop runs, nothing has wrapped and pass k is at
  start + k * d (`StepsEvenly`), and there is a first pass that breaks (`LoopEnds`).
  The wrapping addition and the division with remainder that count the members of
  the range are `IntsAre` and `ModSplit`.
- Patterns: the code compiles a pattern to items and lets regexp match them; the
  reference says which texts a pattern denotes, without items. At each index both
  read the same piece of the pattern (`PieceIs`), so that the items match a text if
  and only if the pattern denotes it (`MatchIsDenotes`), from which
  `RemovesShortestAndLongest` follows. For `/` one needs that the greedy matcher,
  which takes the longest run of every `*` that lets the rest match, ends where the
  longest match ends (`MatchEndIsLongest`): what remains after a `*` can only end
  later the later it begins. `PatternsPlain` leaves out characters outside of ASCII,
  for which it is false: that is the finding of `literal_word`.
- `WordsLoseOnlyRest`: `FlattenSeq` is a homomorphism (`FlattenConcat`); attaching
  the pieces of a part to the fields adds the part's text to theirs (`AttachedIs`)
  and takes no quoted value apart (`AttachedKeeps`, `AttachedHolds`). What a part
  contributes is the text of its pieces (`PiecesAre`, `ContributionIs`), of an unquoted
  `$@` with several values that of its first (`KeptValuesAre`); without this exception
  the claim is false.
- `ParametersFollowTable`: the result of the code for an operand agrees with what
  the reference says (`Agree`), and then the results of the use around it agree
  (`StepAgrees`), whether or not the use looks at its operand. It goes backwards
  along the chain (`ExpressionAgrees`) and forwards along the word (`AllAgree`).

- `LoopSeesOptions`: the place of a call says what of the reference's list is left to
  see from there (`RestAt`): from a word on, or from a letter in the middle of one. A
  call at such a place sees the first of what is left and leaves a place at the others
  (`Sees`), or nothing is left and it finds the end (`Ends`); that is `CallIs`, which
  rests on the case analysis of one letter (`TakeIs`). So the k-th call is at the list
  without its first k (`CallsSeeAll`), and as the list is no longer than the words have
  characters (`OptionsAre`), the end comes within the bound of `AllOptions`. No call
  on the way is at an offset outside of its word, where the code panics.

*Only model-checked*: `CancelledPipelineReturns` (liveness and fairness are
beyond the proof system); `ArithmeticMeansTree`, `BracesGiveEveryChoice` and
`ScriptsParseBack`, which are about RECURSIVE operators over trees and nested
tokens, for which tlapm has no backend; and `JoinedArgumentsReturn`, which goes
through the same lexer and parser.

## Not modelled, and why

The text utilities (`cat`, `head`, `tail`, `wc`, `grep`, `find`, ...), PATH lookup
and the apt mappings are sequential functions of concrete text or of the host;
unit tests are the right tool for most of them. Windows Job Objects are host
calls. `FileOps` leaves out a FileSystem without the optional methods (its listing falls
back to Glob and skips what it cannot look at), and `Scopes` leaves out `cd`'s `PWD`
and `OLDPWD` and the removal of `OPTARG` by `getopts`. The command line tool wraps one `Run`. `Snapshot`, `Restore` and `Clone`
copy `shellState` field by field between Runs. Of word expansion `//`, tilde,
globbing, the bodies of heredocs and the padding of ranges are left out; of the
parser positions, the texts of errors and the report of `inspectProgram`.

## What could come next

1. `Snapshot`, `Restore` and `Clone` as copies of `shellState` against an abstract
   one-owner state, and globbing beside the other algorithms.
2. In `FileOps`, a tree with more links than one before the command. The
   theorems use of `Init` only that links lie in the working directory and lead
   elsewhere (`InitShallow`), so they would still hold for any number of such links.
