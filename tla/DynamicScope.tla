---------------------------- MODULE DynamicScope ----------------------------
(***************************************************************************)
(* What `local`, prefix assignments (x=1 command) and the arguments of     *)
(* functions and sourced files mean, without saying how it is done: a      *)
(* stack of scopes.  A name stands for its binding in the innermost scope  *)
(* that binds it; a scope's bindings and its arguments vanish with it.     *)
(* Module Scopes does the same with one map of variables and saved values. *)
(***************************************************************************)
EXTENDS Integers, SequencesExt

CONSTANTS Names, Bindings, Arguments

VARIABLE scopes  \* outermost first

\* The bindings of one scope.
Variables == UNION {[ns -> Bindings] : ns \in SUBSET Names}

\* The innermost of the scopes ss that binds n.
Holder(ss, n) ==
  CHOOSE k \in 1..Len(ss) :
    /\ n \in DOMAIN ss[k].vars
    /\ \A j \in (k + 1)..Len(ss) : n \notin DOMAIN ss[j].vars

InnermostFunction(ss) ==
  CHOOSE k \in 1..Len(ss) :
    /\ ss[k].kind = "function"
    /\ \A j \in (k + 1)..Len(ss) : ss[j].kind # "function"

Bind(vars, n, b) == [m \in DOMAIN vars \cup {n} |-> IF m = n THEN b ELSE vars[m]]

Init ==
  \E vars \in [Names -> Bindings], args \in Arguments :
    scopes = <<[kind |-> "global", vars |-> vars, args |-> args]>>

\* The steps, as relations between the scopes before and after.
Assign(old, new, n) ==
  \E b \in Bindings : new = [old EXCEPT ![Holder(old, n)].vars[n] = b]

\* A first `local` of n opens a binding in the function's scope; a second one
\* is an assignment.
Local(old, new, n) ==
  /\ \E k \in 1..Len(old) : old[k].kind = "function"
  /\ LET f == InnermostFunction(old)
     IN /\ n \notin DOMAIN old[f].vars
        /\ \E b \in Bindings : new = [old EXCEPT ![f].vars = Bind(@, n, b)]

\* Not a step of a stack of scopes: the innermost function's scope takes over its
\* caller's binding of n, and b takes that binding's place.  Scopes does this when
\* a function's first `local n` finds a temporary binding b (LocalUnderPrefix).
CallerHolder(ss, f, n) ==
  CHOOSE k \in 1..(f - 1) :
    /\ n \in DOMAIN ss[k].vars
    /\ \A j \in (k + 1)..(f - 1) : n \notin DOMAIN ss[j].vars
Displaced(ss, n, b) ==
  LET f == InnermostFunction(ss)
      c == CallerHolder(ss, f, n)
  IN [ss EXCEPT ![f].vars = Bind(@, n, ss[c].vars[n]), ![c].vars[n] = b]

SetArguments(old, new) ==
  \E args \in Arguments : new = [old EXCEPT ![Len(old)].args = args]

\* A function has a scope for its prefix assignments and one for its locals.
EnterFunction(old, new) ==
  /\ Len(new) = Len(old) + 2
  /\ SubSeq(new, 1, Len(old)) = old
  /\ new[Len(old) + 1] \in
       [kind : {"prefix"}, vars : Variables, args : {Last(old).args}]
  /\ Last(new) \in [kind : {"function"}, vars : {<< >>}, args : Arguments]

EnterSource(old, new) ==
  /\ Len(new) = Len(old) + 1
  /\ Front(new) = old
  /\ Last(new) \in [kind : {"prefix"}, vars : Variables, args : Arguments]

Leave(old, new) ==
  /\ Len(old) > 1
  /\ new = IF Last(old).kind = "function" THEN SubSeq(old, 1, Len(old) - 2)
           ELSE Front(old)

Step(old, new) ==
  \/ Leave(old, new)
  \/ EnterSource(old, new)
  \/ EnterFunction(old, new)
  \/ SetArguments(old, new)
  \/ \E n \in Names : Assign(old, new, n) \/ Local(old, new, n)

Next == Step(scopes, scopes')

Spec == Init /\ [][Next]_scopes

=============================================================================
