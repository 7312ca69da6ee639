------------------------------ MODULE FileOps ------------------------------
(***************************************************************************)
(* builtins_portable_fs.go: mkdir, rmdir, rm, cp, mv and touch, as         *)
(* sequences of FileSystem calls each of which may fail.  One command runs *)
(* on an arbitrary small tree; a crash is the end of a behaviour.          *)
(*                                                                         *)
(* The content of a file is the path it had before the command.            *)
(***************************************************************************)
EXTENDS Integers, FiniteSets, SequencesExt

CONSTANTS
  Names,        \* file names
  MaxDepth,     \* bound: the longest path, longer ones are refused (PATH_MAX)
  MaxNodes,     \* bound: files, directories and links before the command
  MaxOperands,  \* bound: sources of one cp or mv, operands of the others
  Aliasing      \* whether cp and mv may be given the same file twice

ASSUME NamesAssumption == IsFiniteSet(Names)
ASSUME DepthAssumption == MaxDepth \in Nat \ {0} /\ MaxOperands \in Nat \ {0}
ASSUME AliasingAssumption == Aliasing \in BOOLEAN

VARIABLES
  tree,      \* the file system below the working directory
  cmd,       \* the command and its arguments
  rest,      \* the operands not yet begun
  source,    \* the operand in work
  target,    \* where cp and mv put it
  destDir,   \* what Stat said of the destination when the command began
  pc,        \* the next step
  todo,      \* copyPortablePath: the calls not yet made
  status,    \* the exit status so far
  begun      \* history: the tree when the operand was begun

vars == <<tree, cmd, rest, source, target, destDir, pc, todo, status, begun>>

\* << >> is the working directory.
Paths == UNION {[1..n -> Names] : n \in 0..MaxDepth}
Root == << >>

\* of: the content of a file, or the absolute path a link points to.
Node == [kind : {"absent", "dir", "file", "link"}, of : Paths, whole : BOOLEAN]
Absent == [kind |-> "absent", of |-> Root, whole |-> TRUE]
Dir == [kind |-> "dir", of |-> Root, whole |-> TRUE]
File(p) == [kind |-> "file", of |-> p, whole |-> TRUE]
Link(p) == [kind |-> "link", of |-> p, whole |-> TRUE]
Torn == [kind |-> "file", of |-> Root, whole |-> FALSE]

-----------------------------------------------------------------------------
(* Names in a tree. *)

At(t, p) == IF p \in Paths THEN t[p] ELSE Absent

\* The name n looked up in the directory q.
Entered(t, q, n) ==
  LET c == Append(q, n) IN IF At(t, c).kind = "link" THEN At(t, c).of ELSE c

\* The path with every link followed, and the path of the entry itself.
Followed(t, p) ==
  LET at[i \in 0..Len(p)] == IF i = 0 THEN Root ELSE Entered(t, at[i - 1], p[i])
  IN at[Len(p)]
Named(t, p) == IF p = Root THEN p ELSE Append(Followed(t, Front(p)), Last(p))

Lstat(t, p) == At(t, Named(t, p))

\* A link that is still there points to itself.
Stat(t, p) ==
  LET n == At(t, Followed(t, p)) IN IF n.kind = "link" THEN Absent ELSE n

Exists(n) == n.kind # "absent"
Below(p) == {q \in Paths : IsPrefix(p, q)}
Children(t, p) == {name \in Names : Exists(At(t, Append(p, name)))}

WellFormed(t) ==
  /\ t[Root].kind = "dir"
  /\ \A p \in Paths \ {Root} : Exists(t[p]) => t[Front(p)].kind = "dir"

\* What the source names and what the target names are the same, or one lies in
\* the other.  The code compares the names.
Alias(t, op, s, d) ==
  LET A == {Followed(t, s)} \cup IF op = "mv" THEN {Named(t, s)} ELSE {}
      b == IF op = "mv" THEN Named(t, d) ELSE Followed(t, d)
  IN s # d /\ ~ (IsPrefix(s, d) /\ Stat(t, s).kind = "dir")
       /\ \E a \in A : IsPrefix(a, b) \/ IsPrefix(b, a)

-----------------------------------------------------------------------------
(* The calls: what they may leave behind, and whether they succeed. *)

Outcome(t, ok) == [tree |-> t, ok |-> ok]
Without(S) == [p \in Paths |-> IF p \in S THEN Absent ELSE tree[p]]

RemoveCalls(p) ==
  LET q == Named(tree, p)
  IN {Outcome(tree, FALSE)} \cup
     (IF Exists(At(tree, q)) /\ Children(tree, q) = {}
      THEN {Outcome(Without({q}), TRUE)} ELSE {})

\* A plausible bug in place of the next definition: it goes through a link.
RemoveAllFollows(p) ==
  LET all == {q \in Below(Followed(tree, p)) : Exists(tree[q])}
  IN {Outcome(Without(all), TRUE), Outcome(tree, FALSE)}

\* The call stops at an entry that it cannot remove.
RemoveAllCalls(p) ==
  LET all == {q \in Below(Named(tree, p)) : Exists(tree[q])}
      kept == {K \in SUBSET all : \A q \in K : q = Named(tree, p) \/ Front(q) \in K}
  IN {Outcome(Without(all \ K), K = {}) : K \in kept}

MkdirCalls(p) ==
  LET q == Named(tree, p)
  IN {Outcome(tree, FALSE)} \cup
     (IF q \in Paths \ {Root} /\ ~ Exists(tree[q]) /\ At(tree, Front(q)).kind = "dir"
      THEN {Outcome([tree EXCEPT ![q] = Dir], TRUE)} ELSE {})

\* Makes the missing directories from the top on, as far as it gets.
MkdirAllCalls(p) ==
  LET prefix(i) == SubSeq(p, 1, i)
      usable(i) == \/ Stat(tree, prefix(i)).kind = "dir"
                   \/ ~ Exists(Lstat(tree, prefix(i))) /\ Followed(tree, prefix(i)) \in Paths
      made(k) == [q \in Paths |->
                    IF \E i \in 1..k : q = Followed(tree, prefix(i)) THEN Dir ELSE tree[q]]
  IN {Outcome(made(k), k = Len(p)) :
        k \in {j \in 0..Len(p) : \A i \in 1..j : usable(i)}}
       \cup {Outcome(tree, FALSE)}

\* A rename onto itself is left out: no caller asks for it.
RenameCalls(p, q) ==
  LET a == Named(tree, p)
      b == Named(tree, q)
      moved == {r \in Below(a) : Exists(tree[r])}
      to(r) == b \o SubSeq(r, Len(a) + 1, Len(r))
  IN {Outcome(tree, FALSE)} \cup
     (IF /\ Exists(At(tree, a)) /\ ~ Exists(At(tree, b)) /\ ~ IsPrefix(a, b)
         /\ b \in Paths \ {Root} /\ At(tree, Front(b)).kind = "dir"
         /\ \A r \in moved : to(r) \in Paths
      THEN {Outcome([r \in Paths |->
                       IF \E m \in moved : r = to(m)
                       THEN tree[CHOOSE m \in moved : r = to(m)]
                       ELSE IF r \in moved THEN Absent ELSE tree[r]], TRUE)}
      ELSE {})

\* OpenFile with O_CREATE of a file that becomes f, or is left alone.
Creatable(t, p) ==
  LET q == Followed(t, p)
  IN q \in Paths \ {Root} /\ t[q].kind \in {"absent", "file"} /\ t[Front(q)].kind = "dir"

-----------------------------------------------------------------------------
(* Plausible bugs, each in place of the definition it is named after.      *)

\* mv goes on to remove the source although the copy has failed.
AbortUnlinks ==
  /\ todo' = << >> /\ status' = 1
  /\ pc' = IF cmd.op = "mv" THEN "unlink" ELSE "operand"
  /\ UNCHANGED <<cmd, rest, source, target, destDir, begun>>

\* A failed copy is not reported.
AbortQuietly ==
  /\ todo' = << >> /\ pc' = "operand"
  /\ UNCHANGED <<cmd, rest, source, target, destDir, status, begun>>

\* mv forgets -n.
KeptByCp(p) == cmd.op = "cp" /\ cmd.noClobber /\ Exists(Stat(tree, p))

\* cp, too, removes what it has copied.
CopyEndsUnlinks ==
  /\ pc = "copy" /\ todo = << >>
  /\ pc' = "unlink"
  /\ UNCHANGED <<tree, cmd, rest, source, target, destDir, todo, status, begun>>

-----------------------------------------------------------------------------
(* Commands. *)

Copying == {"cp", "mv"}
Ops == Copying \cup {"mkdir", "rmdir", "rm", "touch"}

\* deep: cp -r, rm -r, mkdir -p, rmdir -p; noClobber: cp -n, mv -n, touch -c;
\* rm -f.
Commands(t) ==
  LET given == {p \in Paths \ {Root} : Len(p) = 1 \/ Exists(t[Front(p)])}
      operands == UNION {[1..n -> given] : n \in 1..MaxOperands}
  IN [op : Copying, deep : BOOLEAN, noClobber : BOOLEAN, operands : operands,
      dest : given \cup {Root}]
     \cup [op : Ops \ Copying, deep : BOOLEAN, noClobber : BOOLEAN,
           operands : [1..1 -> given], dest : {Root}]

Init ==
  /\ \E S \in SUBSET (Paths \ {Root}) :
       /\ Cardinality(S) <= MaxNodes
       /\ \A p \in S : Len(p) = 1 \/ Front(p) \in S
       /\ \E F \in SUBSET {p \in S : Children([q \in Paths |-> IF q \in S THEN Dir ELSE Absent], p) = {}},
             L \in {{}} \cup {{<<n>>} : n \in Names}, n \in Names :
            /\ L \subseteq F /\ <<n>> \notin L
            /\ L = {} => n = CHOOSE m \in Names : TRUE
            /\ tree = [p \in Paths |-> IF p \in L THEN Link(<<n>>)
                                       ELSE IF p \in F THEN File(p)
                                       ELSE IF p \in S \cup {Root} THEN Dir ELSE Absent]
  /\ cmd \in Commands(tree)
  /\ destDir = (Stat(tree, cmd.dest).kind = "dir")
  /\ rest = cmd.operands
  /\ source = Root /\ target = Root
  /\ pc = "begin"
  /\ todo = << >>
  /\ status = 0
  /\ begun = tree

Goto(step) == pc' = step /\ UNCHANGED <<cmd, rest, source, target, destDir, todo, status, begun>>
Fail(step) == pc' = step /\ status' = 1 /\ UNCHANGED <<cmd, rest, source, target, destDir, todo, begun>>

\* Call made: on success, on failure.
Call(outcomes, ok, failed) ==
  \E o \in outcomes : tree' = o.tree /\ IF o.ok THEN ok ELSE failed

Begin ==
  /\ pc = "begin"
  /\ UNCHANGED tree
  /\ IF cmd.op \in Copying /\ Len(cmd.operands) > 1 /\ ~ destDir
     THEN Fail("done") ELSE Goto("operand")

\* The next operand, unless the context is dead.
NextOperand ==
  /\ pc = "operand" /\ rest # << >>
  /\ source' = Head(rest)
  /\ target' = IF cmd.op \in Copying
               THEN IF destDir THEN Append(cmd.dest, Last(Head(rest))) ELSE cmd.dest
               ELSE Head(rest)
  /\ Aliasing \/ cmd.op \notin Copying \/ ~ Alias(tree, cmd.op, source', target')
  /\ rest' = Tail(rest)
  /\ begun' = tree
  /\ IF cmd.op = "cp"
     THEN todo' = <<[from |-> source', to |-> target']>> /\ pc' = "copy"
     ELSE UNCHANGED todo /\ pc' = cmd.op
  /\ UNCHANGED <<tree, cmd, destDir, status>>

LastOperand ==
  /\ pc = "operand"
  /\ \/ rest = << >> /\ Goto("done")
     \/ rest # << >> /\ cmd.op \in Copying \cup {"rm"} /\ Fail("done")
  /\ UNCHANGED tree

Kept(p) == cmd.noClobber /\ Exists(Stat(tree, p))

-----------------------------------------------------------------------------
(* mv *)

MvStops ==
  /\ pc = "mv"
  /\ UNCHANGED tree
  /\ \/ source = target /\ Goto("operand")
     \/ /\ source # target /\ Stat(tree, source).kind = "dir" /\ IsPrefix(source, target)
        /\ Fail("operand")
     \/ /\ source # target /\ ~ (Stat(tree, source).kind = "dir" /\ IsPrefix(source, target))
        /\ Kept(target) /\ Goto("operand")

MvClears ==
  /\ pc = "mv"
  /\ source # target /\ ~ (Stat(tree, source).kind = "dir" /\ IsPrefix(source, target))
  /\ ~ Kept(target)
  /\ IF Exists(Lstat(tree, target))
     THEN Call(IF Lstat(tree, target).kind = "dir" THEN RemoveAllCalls(target)
               ELSE RemoveCalls(target),
               Goto("rename"), Fail("operand"))
     ELSE UNCHANGED tree /\ Goto("rename")

MvRenames ==
  /\ pc = "rename"
  /\ Call(RenameCalls(source, target), Goto("operand"),
          /\ todo' = <<[from |-> source, to |-> target]>> /\ pc' = "copy"
          /\ UNCHANGED <<cmd, rest, source, target, destDir, status, begun>>)

MvUnlinks ==
  /\ pc = "unlink"
  /\ Call(IF Lstat(tree, source).kind = "dir" THEN RemoveAllCalls(source)
          ELSE RemoveCalls(source),
          Goto("operand"), Fail("operand"))

-----------------------------------------------------------------------------
(* copyPortablePath, for cp and mv *)

From == Head(todo).from
To == Head(todo).to
CopyDeep == cmd.op = "mv" \/ cmd.deep
Skip(p) == cmd.op = "cp" /\ Kept(p)

Abort ==
  /\ todo' = << >> /\ status' = 1 /\ pc' = "operand"
  /\ UNCHANGED <<cmd, rest, source, target, destDir, begun>>

Copied(more) ==
  /\ todo' = more \o Tail(todo) /\ pc' = "copy"
  /\ UNCHANGED <<cmd, rest, source, target, destDir, status, begun>>

\* A directory is not copied without -r, nor into itself.
Refused ==
  \/ From = To
  \/ ~ Exists(Stat(tree, From))
  \/ Stat(tree, From).kind = "dir" /\ (~ CopyDeep \/ IsPrefix(From, To))

\* Also when the context is dead.
CopyStops ==
  /\ pc = "copy" /\ todo # << >>
  /\ UNCHANGED tree
  /\ Abort

CopySkips ==
  /\ pc = "copy" /\ todo # << >> /\ ~ Refused /\ Skip(To)
  /\ UNCHANGED tree
  /\ Copied(<< >>)

\* The directory is read after the target has been made.
CopyDir ==
  /\ pc = "copy" /\ todo # << >> /\ ~ Refused /\ ~ Skip(To)
  /\ Stat(tree, From).kind = "dir"
  /\ Call(MkdirAllCalls(To),
          LET names == SetToSeq(Children(tree', Followed(tree', From)))
          IN Copied([i \in 1..Len(names) |-> [from |-> Append(From, names[i]),
                                               to |-> Append(To, names[i])]]),
          Abort)

CopyParent ==
  /\ pc = "copy" /\ todo # << >> /\ ~ Refused /\ ~ Skip(To)
  /\ Stat(tree, From).kind = "file"
  /\ Call(MkdirAllCalls(Front(To)), Goto("open"), Abort)

\* Both files are opened, and the target is emptied.
CopyOpens ==
  /\ pc = "open"
  /\ \/ /\ Creatable(tree, To)
        /\ tree' = [tree EXCEPT ![Followed(tree, To)] = Torn]
        /\ Goto("write")
     \/ UNCHANGED tree /\ Abort

\* copyContext
CopyWrites ==
  /\ pc = "write"
  /\ \/ /\ tree' = [tree EXCEPT ![Followed(tree, To)] = tree[Followed(tree, From)]]
        /\ Copied(<< >>)
     \/ UNCHANGED tree /\ Abort

CopyEnds ==
  /\ pc = "copy" /\ todo = << >>
  /\ UNCHANGED tree
  /\ Goto(IF cmd.op = "mv" THEN "unlink" ELSE "operand")

-----------------------------------------------------------------------------
(* The other commands *)

Rm ==
  /\ pc = "rm"
  /\ LET n == Lstat(tree, source)
     IN \/ /\ ~ Exists(n) /\ UNCHANGED tree
           /\ IF cmd.noClobber THEN Goto("operand") ELSE Fail("operand")
        \/ n.kind = "dir" /\ ~ cmd.deep /\ UNCHANGED tree /\ Fail("operand")
        \/ /\ Exists(n) /\ (cmd.deep \/ n.kind # "dir")
           /\ Call(IF cmd.deep THEN RemoveAllCalls(source) ELSE RemoveCalls(source),
                   Goto("operand"), Fail("operand"))

Mkdir ==
  /\ pc = "mkdir"
  /\ Call(IF cmd.deep THEN MkdirAllCalls(source) ELSE MkdirCalls(source),
          Goto("operand"), Fail("operand"))

\* target is the entry to be removed: the operand, then, with -p, its parents
\* (the working directory is taken to be in use).
Rmdir ==
  /\ pc = "rmdir"
  /\ Call(RemoveCalls(target),
          IF cmd.deep /\ Len(target) > 1
          THEN /\ target' = Front(target)
               /\ UNCHANGED <<cmd, rest, source, destDir, pc, todo, status, begun>>
          ELSE Goto("operand"),
          IF target = source THEN Fail("operand") ELSE Goto("operand"))

Touch ==
  /\ pc = "touch"
  /\ \/ /\ Exists(Stat(tree, source)) \/ cmd.noClobber
        /\ UNCHANGED tree
        /\ Goto("operand") \/ Fail("operand")
     \/ /\ ~ Exists(Stat(tree, source)) /\ ~ cmd.noClobber
        /\ \/ /\ Creatable(tree, source)
              /\ tree' = [tree EXCEPT ![Followed(tree, source)] = File(Root)]
              /\ Goto("operand")
           \/ UNCHANGED tree /\ Fail("operand")

Terminated == pc = "done" /\ UNCHANGED vars

Next ==
  \/ Begin \/ NextOperand \/ LastOperand
  \/ MvStops \/ MvClears \/ MvRenames \/ MvUnlinks
  \/ CopyStops \/ CopySkips \/ CopyDir \/ CopyParent \/ CopyOpens \/ CopyWrites \/ CopyEnds
  \/ Rm \/ Mkdir \/ Rmdir \/ Touch
  \/ Terminated

Spec == Init /\ [][Next]_vars

-----------------------------------------------------------------------------
Pair == [from : Seq(Names), to : Seq(Names)]

\* Every entry lies in a directory, and the control state matches the command.
TypeOK ==
  /\ tree \in [Paths -> Node] /\ WellFormed(tree)
  /\ begun \in [Paths -> Node]
  /\ status \in {0, 1} /\ destDir \in BOOLEAN
  /\ pc \in {"begin", "operand", "rename", "unlink", "copy", "open", "write", "done"} \cup Ops
  /\ todo \in Seq(Pair)
  /\ pc \in {"rename", "unlink", "mv"} => cmd.op = "mv"
  /\ pc \in {"open", "write"} => todo # << >>

Survives(p) == \E q \in Paths : tree[q] = begun[p]
FilesIn(p) == {q \in Below(p) : begun[q].kind = "file" /\ begun[q].whole}

\* contexto/003:65-66: "specific defences against copying a file onto itself".
\* cp never changes what it was to copy, whatever fails.
CopyLeavesSource ==
  cmd.op = "cp" => \A p \in FilesIn(Followed(begun, source)) : tree[p] = begun[p]

\* Whatever fails, and whenever the program dies: mv always leaves each file it
\* was to move whole somewhere, and cp leaves its sources alone.
OperandSurvives ==
  /\ cmd.op = "mv" => \A p \in FilesIn(Named(begun, source)) : Survives(p)
  /\ CopyLeavesSource

\* A cp or mv that reports no failure has put every file where it belongs.
SuccessMeansDone ==
  pc = "operand" /\ status = 0 /\ cmd.op \in Copying /\ ~ cmd.noClobber
    /\ source # Root
    => LET from == Followed(begun, source)
       IN \A p \in FilesIn(from) :
            At(tree, Followed(tree, target \o SubSeq(p, Len(from) + 1, Len(p)))) = begun[p]

\* With -n cp and mv lose no file at all, the destination's included.
NoClobberLosesNothing ==
  cmd.op \in Copying /\ cmd.noClobber => \A p \in FilesIn(Root) : Survives(p)

\* No command changes a file or a link outside of its operands and the place it
\* copies or moves them to: rm, mv and rmdir act on links, not behind them.
NothingElseTouched ==
  \A p \in Paths :
    \/ tree[p] = begun[p]
    \/ begun[p].kind \in {"absent", "dir"}
    \/ \E q \in {Named(begun, source), Named(begun, target)} : IsPrefix(q, p)
    \/ cmd.op \in {"cp", "touch"} /\ IsPrefix(Followed(begun, target), p)

=============================================================================
