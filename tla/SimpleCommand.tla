--------------------------- MODULE SimpleCommand ----------------------------
(***************************************************************************)
(* execute.go: execSimple, applyRedirects; builtins.go: builtinCommand;    *)
(* translate.go: prepareExternalRequest.  One goroutine executes simple    *)
(* commands, some inside the function or the $( ) of another one.          *)
(*                                                                         *)
(* streams describe descriptors 0 to 2 twice: the fields in, out and err,  *)
(* which builtins use, and the map of descriptors, which redirections use. *)
(* $( ) and pipelines replace the fields only; cloneStreams brings the map *)
(* in line with the fields, syncStandardDescriptors the fields with it.    *)
(*                                                                         *)
(* What a command does is left out: how it is authorized, which file its   *)
(* descriptors are, and when they are closed is not.                       *)
(***************************************************************************)
EXTENDS Integers, Sequences, SequencesExt, FiniteSetsExt

CONSTANTS
  Fds,            \* descriptors
  Files,          \* files that can be open at one time
  FunctionNames,  \* names the script may define as functions
  Commands,       \* the words of commands, after expansion
  Builtins,       \* language builtins
  Utilities,      \* portable utilities
  Translations,   \* host commands that may replace words: <<words, words>>
  Contexts,       \* bound: where commands are, of those ContextsHere names
  MaxNesting,     \* bound: commands in progress
  MaxRedirects    \* bound: redirections of all commands in progress

ASSUME FdsAssumption == 0 \in Fds /\ Fds \subseteq 0..255
ASSUME NamesAssumption == {"command", "exec"} \subseteq Builtins

\* The words that occur; a command is a sequence of them.
Vocabulary ==
  UNION ({ToSet(words) : words \in Commands}
           \cup {ToSet(translation[2]) : translation \in Translations})
ASSUME WordsAssumption ==
  /\ Commands \subseteq Seq(Vocabulary)
  /\ {translation[2] : translation \in Translations} \subseteq Seq(Vocabulary)

VARIABLES
  functions,   \* the names defined as functions
  open,        \* files that are open
  frames       \* the commands in progress, the innermost last

vars == <<functions, open, frames>>

Standard == Fds \cap 0..2
Nothing == "nothing"
Null == "null"
Streams == {"run", "pipe", "capture", "text"} \cup Files
ASSUME FilesAssumption == Files \cap {"run", "pipe", "capture", "text", Null, Nothing} = {}
Closed == [r |-> Nothing, w |-> Nothing]
Reads(s) == [r |-> s, w |-> Nothing]
Writes(s) == [r |-> Nothing, w |-> s]

\* Where a command is: its words are expanded, redirections are applied, what
\* to run is chosen by execSimple or builtinCommand, the handlers are asked, a
\* function or a sourced file runs, or it ends.
Steps == {"words", "redirect", "dispatch", "command", "handlers", "body", "end"}

NoRun == [kind |-> "none", words |-> << >>]

Top == Last(frames)
Becomes(frame) == frames' = Append(Front(frames), frame)
At(step) == frames # << >> /\ Top.step = step

-----------------------------------------------------------------------------
\* Mutant: a field whose descriptor is closed is left without a stream.
SyncedBare(fds) == [fd \in Standard |-> IF fd = 0 THEN fds[fd].r ELSE fds[fd].w]

\* The fields of streams, as the map of descriptors says.
Synced(fds) ==
  [fd \in Standard |->
     LET s == IF fd = 0 THEN fds[fd].r ELSE fds[fd].w
     IN  IF s = Nothing THEN Null ELSE s]

\* The map of descriptors, with the fields' streams for 0 to 2.
Copied(std, fds) ==
  [fd \in Fds |->
     IF fd \notin Standard THEN fds[fd]
     ELSE IF fd = 0 THEN Reads(std[fd]) ELSE Writes(std[fd])]

\* The streams of a command: the program's own, those of the body around it,
\* with a pipe for a stage of a pipeline in it, or those of a $( ).
NoFds == [fd \in Fds |-> Closed]
Given(context) ==
  LET parent == IF frames = << >>
                THEN [std |-> [fd \in Standard |-> "run"], fds |-> NoFds]
                ELSE [std |-> Top.std, fds |-> Top.fds]
  IN CASE context = "reader" -> [parent EXCEPT !.std[0] = "pipe"]
       [] context = "writer" ->
            [parent EXCEPT !.std = [fd \in Standard |-> IF fd = 1 THEN "pipe" ELSE @[fd]]]
       [] context = "substitution" ->
            [std |-> [fd \in Standard |-> IF fd = 1 THEN "capture" ELSE parent.std[fd]],
             fds |-> NoFds]
       [] OTHER -> parent

\* $( ) is executed while words or the target of a redirection are expanded.
ContextsHere ==
  IF frames = << >> \/ At("body") THEN {"body", "reader", "writer", "substitution"}
  ELSE IF At("words") \/ At("redirect") THEN {"substitution"}
  ELSE {}

Init ==
  /\ functions = {}
  /\ open = {}
  /\ frames = << >>

Begin(words, context) ==
  /\ Len(frames) < MaxNesting
  /\ context \in ContextsHere
  /\ LET streams == Given(context)
     IN frames' = Append(frames,
          [step |-> "words", words |-> words, approved |-> << >>, std |-> streams.std,
           fds |-> streams.fds, files |-> {}, redirects |-> 0, did |-> NoRun])
  /\ UNCHANGED <<functions, open>>

\* Those of a subshell's clone, which vanish with it, are not told apart: what
\* a name stands for when a command is dispatched is arbitrary anyway.
Define(name) ==
  /\ frames = << >> \/ At("body")
  /\ functions' = functions \cup {name}
  /\ UNCHANGED <<open, frames>>

\* closeAll, deferred or on an error, and the command is over.
Leave ==
  /\ frames' = Front(frames)
  /\ open' = open \ Top.files

\* Policy.CheckCommand sees the words before any redirection is applied.
Authorize ==
  /\ At("words")
  /\ Becomes([Top EXCEPT !.step = "redirect", !.approved = Top.words,
                         !.fds = Copied(Top.std, Top.fds)])
  /\ UNCHANGED <<functions, open>>

\* An expansion fails, a variable is readonly, the policy says no.
Refuse ==
  /\ At("words")
  /\ Leave
  /\ UNCHANGED functions

-----------------------------------------------------------------------------
FewRedirects == MapThenSumSet(LAMBDA i : frames[i].redirects, DOMAIN frames) < MaxRedirects
RedirectIsNext == At("redirect") /\ FewRedirects

\* Mutant: the fields are not brought in line with the map.
SetUnsynced(fd, d) ==
  /\ RedirectIsNext
  /\ Becomes([Top EXCEPT !.fds[fd] = d, !.redirects = @ + 1])

\* One turn of applyRedirects' loop.
Set(fd, d) ==
  /\ RedirectIsNext
  /\ LET fds == [Top.fds EXCEPT ![fd] = d]
     IN Becomes([Top EXCEPT !.fds = fds, !.std = Synced(fds), !.redirects = @ + 1])

\* <, >, >>, >|, <>.  Which identity the file gets does not matter.
OpenRedirect(fd) ==
  LET f == CHOOSE f \in Files \ open : TRUE
  IN /\ RedirectIsNext
     /\ Files # open
     /\ \E d \in {Reads(f), Writes(f), [r |-> f, w |-> f]} :
          LET fds == [Top.fds EXCEPT ![fd] = d]
          IN Becomes([Top EXCEPT !.fds = fds, !.std = Synced(fds), !.redirects = @ + 1,
                                 !.files = @ \cup {f}])
     /\ open' = open \cup {f}
     /\ UNCHANGED functions

\* <<, <<-, <<<
InlineRedirect(fd) ==
  /\ Set(fd, Reads("text"))
  /\ UNCHANGED <<functions, open>>

\* duplicateDescriptor: n>&- and n>&m
CloseRedirect(fd) ==
  /\ Set(fd, Closed)
  /\ UNCHANGED <<functions, open>>

DuplicateRedirect(fd, other) ==
  /\ At("redirect") /\ Top.fds[other] # Closed
  /\ Set(fd, Top.fds[other])
  /\ UNCHANGED <<functions, open>>

\* Mutant: the files opened before are not closed.
RedirectFailsLeaks ==
  /\ At("redirect")
  /\ frames' = Front(frames)
  /\ UNCHANGED <<functions, open>>

\* The policy or the limit refuses a file, it cannot be opened, m is closed.
RedirectFails ==
  /\ At("redirect")
  /\ Leave
  /\ UNCHANGED functions

Redirected ==
  /\ At("redirect")
  /\ Becomes([Top EXCEPT !.step = IF Top.words = << >> THEN "end" ELSE "dispatch"])
  /\ UNCHANGED <<functions, open>>

-----------------------------------------------------------------------------
Runs(kind, words, next) ==
  Becomes([Top EXCEPT !.did = [kind |-> kind, words |-> words], !.step = next])

CallFunction ==
  /\ At("dispatch") /\ Head(Top.words) \in functions
  /\ Runs("function", Top.words, "body")
  /\ UNCHANGED <<functions, open>>

\* MaxFunctionDepth is reached.
CallFails ==
  /\ At("dispatch") /\ Head(Top.words) \in functions
  /\ Leave
  /\ UNCHANGED functions

\* execSimple looks for functions first, builtinCommand does not.
BuiltinIsNext ==
  /\ \/ At("dispatch") /\ Head(Top.words) \notin functions
     \/ At("command") /\ Top.words # << >>
  /\ Head(Top.words) \in Builtins

\* source executes commands of its own, unset removes functions, too.
RunBuiltin ==
  /\ BuiltinIsNext /\ Head(Top.words) \notin {"command", "exec"}
  /\ \E next \in {"end", "body"} : Runs("builtin", Top.words, next)
  /\ functions' \in SUBSET functions
  /\ UNCHANGED open

\* command and exec: builtinCommand with the rest of the words.
RunCommand ==
  /\ BuiltinIsNext
  /\ Head(Top.words) \in (IF At("dispatch") THEN {"command", "exec"} ELSE {"exec"})
  /\ Becomes([Top EXCEPT !.words = Tail(@), !.step = "command"])
  /\ UNCHANGED <<functions, open>>

\* Without words, and with -v, command runs nothing.
CommandAnswers ==
  /\ At("command")
  /\ Becomes([Top EXCEPT !.step = "end"])
  /\ UNCHANGED <<functions, open>>

\* Anything that is no language builtin is authorized again without command.
NotBuiltin ==
  /\ At("command") /\ Top.words # << >>
  /\ Head(Top.words) \notin Builtins \ {"command"}

AuthorizeAgain ==
  /\ NotBuiltin
  /\ Becomes([Top EXCEPT !.approved = Top.words, !.step = "handlers"])
  /\ UNCHANGED <<functions, open>>

RefuseAgain ==
  /\ NotBuiltin
  /\ Leave
  /\ UNCHANGED functions

AskHandlers ==
  /\ At("dispatch") /\ Head(Top.words) \notin functions \cup Builtins
  /\ Becomes([Top EXCEPT !.step = "handlers"])
  /\ UNCHANGED <<functions, open>>

\* A handler takes the command or fails; or all of them leave it.
HandlerRuns ==
  /\ At("handlers")
  /\ Runs("handler", Top.words, "end")
  /\ UNCHANGED <<functions, open>>

RunUtility ==
  /\ At("handlers") /\ Head(Top.words) \in Utilities
  /\ Runs("utility", Top.words, "end")
  /\ UNCHANGED <<functions, open>>

HostIsNext == At("handlers") /\ Head(Top.words) \notin Utilities

\* The command is found in PATH or in the hash table.
RunHost ==
  /\ HostIsNext
  /\ Runs("host", Top.words, "end")
  /\ UNCHANGED <<functions, open>>

\* Mutant: the policy has seen the original command only.
RunTranslatedUnseen(words) ==
  /\ HostIsNext
  /\ <<Top.words, words>> \in Translations
  /\ Becomes([Top EXCEPT !.words = words, !.step = "end",
                         !.did = [kind |-> "host", words |-> words]])
  /\ UNCHANGED <<functions, open>>

\* It is not, but a translation of it is, and the policy allows that.
RunTranslated(words) ==
  /\ HostIsNext
  /\ <<Top.words, words>> \in Translations
  /\ Becomes([Top EXCEPT !.words = words, !.approved = words, !.step = "end",
                         !.did = [kind |-> "host", words |-> words]])
  /\ UNCHANGED <<functions, open>>

\* External commands are disabled, or there is none, or it is not allowed.
HostFails ==
  /\ HostIsNext
  /\ Leave
  /\ UNCHANGED functions

\* The command, the function or the file ends, with whatever result.
End ==
  /\ At("end") \/ At("body")
  /\ Leave
  /\ UNCHANGED functions

Next ==
  \/ \E words \in Commands, context \in Contexts : Begin(words, context)
  \/ \E name \in FunctionNames : Define(name)
  \/ Authorize \/ Refuse
  \/ \E fd \in Fds :
       \/ OpenRedirect(fd) \/ InlineRedirect(fd) \/ CloseRedirect(fd)
       \/ \E other \in Fds : DuplicateRedirect(fd, other)
  \/ RedirectFails \/ Redirected
  \/ CallFunction \/ CallFails \/ RunBuiltin \/ RunCommand
  \/ CommandAnswers \/ AuthorizeAgain \/ RefuseAgain
  \/ AskHandlers \/ HandlerRuns \/ RunUtility \/ RunHost \/ HostFails
  \/ \E translation \in Translations : RunTranslated(translation[2])
  \/ End

Spec == Init /\ [][Next]_vars

-----------------------------------------------------------------------------
Descriptor == [r : Streams \cup {Null, Nothing}, w : Streams \cup {Null, Nothing}]
Frame ==
  [step : Steps, words : Seq(Vocabulary), approved : Seq(Vocabulary),
   std : [Standard -> Streams \cup {Null}], fds : [Fds -> Descriptor], files : SUBSET Files,
   redirects : Nat,
   did : [kind : {"none", "function", "builtin", "handler", "utility", "host"},
          words : Seq(Vocabulary)]]

\* Types of the streams and of the commands in progress, and that only the
\* innermost command is about to do something.
TypeOK ==
  /\ functions \subseteq FunctionNames /\ open \subseteq Files
  /\ frames \in Seq(Frame)
  /\ \A i \in 1..(Len(frames) - 1) : frames[i].step \in {"words", "redirect", "body"}

\* "Policy authorizes expanded commands and redirections before their effects"
\* (README.md:173): before a command's files are opened and before anything
\* runs or a handler sees it, the policy has seen the words that run; a builtin
\* run by command or exec was seen with these words in front.
Leading(words) ==
  {SubSeq(words, i, Len(words)) : i \in
     {j \in 1..Len(words) : \A k \in 1..(j - 1) : words[k] \in {"command", "exec"}}}
ApprovedBeforeEffect ==
  \A i \in DOMAIN frames :
    LET c == frames[i]
    IN /\ c.files # {} /\ c.words # << >> => c.approved # << >>
       /\ c.step = "handlers" => c.approved = c.words
       /\ c.did.kind = "builtin" => c.did.words \in Leading(c.approved)
       /\ c.did.kind \in {"function", "handler", "utility", "host"} =>
            c.did.words = c.approved

\* A file is open as long as the command whose redirection opened it, in every
\* way that command and the ones inside it can end; and no command ever holds a
\* stream to a file that has been closed.
Held(c) == {c.fds[fd].r : fd \in Fds} \cup {c.fds[fd].w : fd \in Fds}
             \cup {c.std[fd] : fd \in Standard}
FilesOutliveUse ==
  /\ open = UNION {frames[i].files : i \in DOMAIN frames}
  /\ \A i, j \in DOMAIN frames : i < j => frames[i].files \cap frames[j].files = {}
  /\ \A i \in DOMAIN frames :
       Held(frames[i]) \cap Files \subseteq UNION {frames[j].files : j \in 1..i}

-----------------------------------------------------------------------------
\* Before its redirections a command has the table cloneStreams will make.
Table == INSTANCE DescriptorTable
  WITH tables <- [i \in DOMAIN frames |->
                    IF frames[i].step = "words" THEN Copied(frames[i].std, frames[i].fds)
                    ELSE frames[i].fds],
       used <- [i \in DOMAIN frames |->
                  IF frames[i].did = NoRun THEN << >> ELSE frames[i].std]

\* The two representations of descriptors 0 to 2 never disagree: every command
\* uses and passes on the descriptors that the redirections around it and its
\* own have made, in the order of the text, whatever failed in between.
RefinesDescriptorTable == Table!Spec

=============================================================================
