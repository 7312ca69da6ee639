-------------------------- MODULE DescriptorTable ---------------------------
(***************************************************************************)
(* The descriptors a script sees.  A command starts with the table of the  *)
(* command it runs in, its redirections change one entry after the other,  *)
(* and what it runs uses the table they have made.  Descriptor 0 is passed *)
(* on for reading, 1 and 2 for writing; where nothing is left to read or   *)
(* write, input is empty and output is dropped.                            *)
(***************************************************************************)
EXTENDS Integers, Sequences, SequencesExt

CONSTANTS
  Fds,      \* the descriptors explored
  Contexts, \* where commands are
  Streams   \* what a descriptor can read from or write to

VARIABLES
  tables,   \* one table for each command in progress, the innermost last
  used      \* what each of them uses as 0, 1 and 2, once it runs

vars == <<tables, used>>

Standard == Fds \cap 0..2
Nothing == "nothing"    \* this direction is closed
Null == "null"          \* empty input, dropped output
Descriptor == [r : Streams \cup {Null, Nothing}, w : Streams \cup {Null, Nothing}]
Closed == [r |-> Nothing, w |-> Nothing]
Table == [Fds -> Descriptor]

OrNull(stream) == IF stream = Nothing THEN Null ELSE stream
StandardUse(t) == [fd \in Standard |-> OrNull(IF fd = 0 THEN t[fd].r ELSE t[fd].w)]
PassedOn(t) ==
  [fd \in Fds |->
     IF fd \notin Standard THEN t[fd]
     ELSE IF fd = 0 THEN [r |-> OrNull(t[fd].r), w |-> Nothing]
     ELSE [r |-> Nothing, w |-> OrNull(t[fd].w)]]

Fresh(stream) ==
  {[r |-> stream, w |-> Nothing], [r |-> Nothing, w |-> stream], [r |-> stream, w |-> stream]}

\* The table in which the program, a command of a function's body, a stage of
\* a pipeline in it, or a command of a $( ) starts.
AtStart ==
  [fd \in Fds |-> IF fd \notin Standard THEN Closed
                  ELSE IF fd = 0 THEN [r |-> "run", w |-> Nothing]
                  ELSE [r |-> Nothing, w |-> "run"]]
In(context, t) ==
  [fd \in Fds |->
     CASE context = "reader" /\ fd = 0 -> [r |-> "pipe", w |-> Nothing]
       [] context = "writer" /\ fd = 1 -> [r |-> Nothing, w |-> "pipe"]
       [] context = "substitution" /\ fd = 1 -> [r |-> Nothing, w |-> "capture"]
       [] context = "substitution" /\ fd \notin Standard -> Closed
       [] OTHER -> t[fd]]

Init ==
  /\ tables = << >>
  /\ used = << >>

Enter(context) ==
  /\ tables' = Append(tables, PassedOn(In(context, IF tables = << >> THEN AtStart
                                                    ELSE Last(tables))))
  /\ used' = Append(used, << >>)

Set(fd, d) ==
  /\ tables # << >> /\ Last(used) = << >>
  /\ tables' = [tables EXCEPT ![Len(tables)][fd] = d]
  /\ UNCHANGED used

\* Descriptor fd becomes what the table says of another one that is open.
Duplicate(fd, other) ==
  /\ tables # << >> /\ Last(tables)[other] # Closed
  /\ Set(fd, Last(tables)[other])

Use ==
  /\ tables # << >>
  /\ used' = Append(Front(used), StandardUse(Last(tables)))
  /\ UNCHANGED tables

Leave ==
  /\ tables # << >>
  /\ tables' = Front(tables)
  /\ used' = Front(used)

\* A command that fails leaves without having used its table.
Next ==
  \/ \E context \in Contexts : Enter(context)
  \/ \E fd \in Fds :
       \/ Set(fd, Closed)
       \/ \E stream \in Streams : \E d \in Fresh(stream) : Set(fd, d)
       \/ \E other \in Fds : Duplicate(fd, other)
  \/ Use
  \/ Leave

Spec == Init /\ [][Next]_vars

=============================================================================
