------------------------------- MODULE Scopes -------------------------------
(***************************************************************************)
(* The variables, the call stack and the arguments of one shellState       *)
(* (variables.go; execSimple and overlayAssignments of execute.go;         *)
(* local, readonly, source of builtins_extra.go; export, unset and set of  *)
(* builtins.go).                                                           *)
(*                                                                         *)
(* There is one map of variables.  A prefix assignment (x=1 command)       *)
(* overwrites the variable and restores it when the command ends, whether  *)
(* it is a function, a sourced file, a builtin or a utility; `local` saves *)
(* it in the innermost frame and the frame is restored when the function   *)
(* returns.  The saved values lie in two places, the `old` maps of         *)
(* overlayAssignments on the Go stack and the frames of state.locals;      *)
(* `layers` holds both in the order in which they will be restored.        *)
(*                                                                         *)
(* A shellState is used by one goroutine at a time; subshells and pipeline *)
(* stages work on a clone.  A builtin other than source runs no commands,  *)
(* so it is one step with the prefix assignments around it, and one of     *)
(* several arguments (`local x y`) is as many steps.  cd, which writes PWD *)
(* and OLDPWD whether they are readonly or not, is left out.               *)
(***************************************************************************)
EXTENDS Integers, SequencesExt

CONSTANTS
  Names,             \* variable names
  Values,            \* values given by assignments
  PrefixValues,      \* values given by prefix assignments
  Arguments,         \* positional parameters
  MaxFunctionDepth,  \* Config.MaxFunctionDepth
  MaxSourceDepth,    \* Config.MaxSourceDepth
  MaxNesting         \* bound: calls and sourced files inside each other

ASSUME DepthsAssumption == MaxFunctionDepth \in Nat /\ MaxSourceDepth \in Nat

Unset == "unset"
ASSUME UnsetAssumption == Unset \notin Values \cup PrefixValues

VARIABLES
  env,            \* state.env, Unset for a missing key
  exported,       \* state.exported
  readonly,       \* state.readonly
  position,       \* state.position
  functionDepth,  \* state.functionDepth
  sourceDepth,    \* state.sourceDepth
  layers          \* what is saved, outermost first

attributes == <<exported, readonly>>
depths == <<functionDepth, sourceDepth>>
vars == <<env, attributes, position, depths, layers>>

Partial(S, T) == UNION {[D -> T] : D \in SUBSET S}

AllValues == Values \cup PrefixValues \cup {Unset}
Saved == [value : AllValues, exported : BOOLEAN, readonly : BOOLEAN]
\* "prefix": of a function call, below the "function" layer with its locals;
\* "source": of a source command.
LayerKind == {"prefix", "function", "source"}
Layer == [kind : LayerKind, saved : Partial(Names, Saved), previous : Arguments]

Count(kind) == Cardinality({l \in 1..Len(layers) : layers[l].kind = kind})

Current(n) ==
  [value |-> env[n], exported |-> n \in exported, readonly |-> n \in readonly]

RestoredEnv(e, saved) ==
  [n \in Names |-> IF n \in DOMAIN saved THEN saved[n].value ELSE e[n]]
RestoredExported(x, saved) ==
  (x \ DOMAIN saved) \cup {n \in DOMAIN saved : saved[n].exported}
RestoredReadonly(x, saved) ==
  (x \ DOMAIN saved) \cup {n \in DOMAIN saved : saved[n].readonly}

-----------------------------------------------------------------------------
(* Plausible bugs, each in place of the definition it is named after.      *)

\* A second `local` saves the local value over the caller's.
RememberedEveryTime(frame, n, found) ==
  [m \in DOMAIN frame \cup {n} |-> IF m = n THEN found ELSE frame[m]]

\* functionDepth-- is skipped on return.
ReturnFunctionKeepsDepth ==
  /\ layers # << >> /\ Last(layers).kind = "function"
  /\ LET frame == Last(layers).saved
         old == Last(Front(layers)).saved
     IN /\ env' = RestoredEnv(RestoredEnv(env, frame), old)
        /\ exported' = RestoredExported(RestoredExported(exported, frame), old)
        /\ readonly' = RestoredReadonly(readonly, frame)
  /\ layers' = Front(Front(layers))
  /\ position' = Last(layers).previous
  /\ UNCHANGED depths

-----------------------------------------------------------------------------
Init ==
  /\ env \in [Names -> Values \cup {Unset}]
  /\ exported \in SUBSET {n \in Names : env[n] # Unset} /\ readonly = {}
  /\ position \in Arguments
  /\ functionDepth = 0 /\ sourceDepth = 0
  /\ layers = << >>

\* overlayAssignments, after execSimple has refused readonly names.
OverlaidEnv(prefix) ==
  [n \in Names |-> IF n \in DOMAIN prefix THEN prefix[n] ELSE env[n]]
OverlaidExported(prefix) == exported \cup DOMAIN prefix
Overlay(prefix) ==
  /\ DOMAIN prefix \cap readonly = {}
  /\ env' = OverlaidEnv(prefix)
  /\ exported' = OverlaidExported(prefix)

\* execSimple around a builtin that leaves the values e and the exported names x
\* behind it: the deferred restore gives the names of its prefix back what they
\* were before the overlay.  Builtins and utilities that change no variable, shift
\* and set come to nothing here: overlay and restore cancel out.
Restored(prefix, e, x) ==
  /\ DOMAIN prefix \cap readonly = {}
  /\ LET old == [n \in DOMAIN prefix |-> Current(n)]
     IN env' = RestoredEnv(e, old) /\ exported' = RestoredExported(x, old)

\* assignVariable: x=v, for, ${x:=v} without a prefix; read, getopts.
Assign(prefix, n, v) ==
  /\ n \notin readonly
  /\ Restored(prefix, [OverlaidEnv(prefix) EXCEPT ![n] = v], OverlaidExported(prefix))
  /\ UNCHANGED <<readonly, position, depths, layers>>

UnsetName(prefix, n) ==
  /\ n \notin readonly
  /\ Restored(prefix, [OverlaidEnv(prefix) EXCEPT ![n] = Unset],
              OverlaidExported(prefix) \ {n})
  /\ UNCHANGED <<readonly, position, depths, layers>>

\* export x; export x=v is Assign and then this.
Export(prefix, n) ==
  /\ Restored(prefix, OverlaidEnv(prefix), OverlaidExported(prefix) \cup {n})
  /\ UNCHANGED <<readonly, position, depths, layers>>

\* readonly x; readonly x=v is Assign and then this.
Readonly(prefix, n) ==
  /\ Restored(prefix, OverlaidEnv(prefix), OverlaidExported(prefix))
  /\ readonly' = readonly \cup {n}
  /\ UNCHANGED <<position, depths, layers>>

\* What a builtin finds under its prefix assignments.
Found(prefix, n) ==
  IF n \in DOMAIN prefix
  THEN [value |-> prefix[n], exported |-> TRUE, readonly |-> n \in readonly]
  ELSE Current(n)

\* rememberLocal: only the first `local` of a name in a function saves it.
Remembered(frame, n, found) ==
  IF n \in DOMAIN frame THEN frame
  ELSE [m \in DOMAIN frame \cup {n} |-> IF m = n THEN found ELSE frame[m]]

\* state.locals[len(state.locals)-1]
InnermostFrame ==
  CHOOSE l \in 1..Len(layers) :
    /\ layers[l].kind = "function"
    /\ \A j \in (l + 1)..Len(layers) : layers[j].kind # "function"

Local(prefix, n, v) ==
  /\ functionDepth > 0
  /\ n \notin readonly
  /\ layers' = [layers EXCEPT ![InnermostFrame].saved = Remembered(@, n, Found(prefix, n))]
  /\ Restored(prefix, [OverlaidEnv(prefix) EXCEPT ![n] = v],
              OverlaidExported(prefix) \ {n})
  /\ UNCHANGED <<readonly, position, depths>>

\* set -- args, shift
SetPosition(args) ==
  /\ position' = args
  /\ UNCHANGED <<env, attributes, depths, layers>>

Pushed(kind, names) ==
  [kind |-> kind, saved |-> [n \in names |-> Current(n)], previous |-> position]

WithinBound == functionDepth + sourceDepth < MaxNesting

CallFunction(prefix, args) ==
  /\ WithinBound
  /\ functionDepth < MaxFunctionDepth
  /\ Overlay(prefix)
  /\ layers' = layers \o <<Pushed("prefix", DOMAIN prefix), Pushed("function", {})>>
  /\ functionDepth' = functionDepth + 1
  /\ position' = args
  /\ UNCHANGED <<readonly, sourceDepth>>

\* source file: position stays as it is when there are no arguments.
Source(prefix, args) ==
  /\ WithinBound
  /\ sourceDepth < MaxSourceDepth
  /\ Overlay(prefix)
  /\ layers' = Append(layers, Pushed("source", DOMAIN prefix))
  /\ sourceDepth' = sourceDepth + 1
  /\ position' \in {position, args}
  /\ UNCHANGED <<readonly, functionDepth>>

\* restoreLocalFrame, and then the deferred restore of overlayAssignments,
\* which did not save the readonly attribute.
ReturnFunction ==
  /\ layers # << >> /\ Last(layers).kind = "function"
  /\ LET frame == Last(layers).saved
         old == Last(Front(layers)).saved
     IN /\ env' = RestoredEnv(RestoredEnv(env, frame), old)
        /\ exported' = RestoredExported(RestoredExported(exported, frame), old)
        /\ readonly' = RestoredReadonly(readonly, frame)
  /\ layers' = Front(Front(layers))
  /\ functionDepth' = functionDepth - 1
  /\ position' = Last(layers).previous
  /\ UNCHANGED sourceDepth

EndSource ==
  /\ layers # << >> /\ Last(layers).kind = "source"
  /\ LET old == Last(layers).saved
     IN /\ env' = RestoredEnv(env, old)
        /\ exported' = RestoredExported(exported, old)
  /\ layers' = Front(layers)
  /\ sourceDepth' = sourceDepth - 1
  /\ position' = Last(layers).previous
  /\ UNCHANGED <<readonly, functionDepth>>

PrefixAssignments == Partial(Names, PrefixValues)

Next ==
  \/ \E prefix \in PrefixAssignments :
       \/ \E n \in Names :
            \/ \E v \in Values : Assign(prefix, n, v) \/ Local(prefix, n, v)
            \/ UnsetName(prefix, n)
            \/ Export(prefix, n)
            \/ Readonly(prefix, n)
       \/ \E args \in Arguments : CallFunction(prefix, args) \/ Source(prefix, args)
  \/ \E args \in Arguments : SetPosition(args)
  \/ ReturnFunction
  \/ EndSource

Spec == Init /\ [][Next]_vars

-----------------------------------------------------------------------------
\* Types of the shellState's scoping fields.  The depth counters, which no
\* defer protects, agree with the stack whatever way commands end.
TypeOK ==
  /\ env \in [Names -> AllValues]
  /\ exported \subseteq Names /\ readonly \subseteq Names
  /\ position \in Arguments
  /\ layers \in Seq(Layer)
  /\ functionDepth = Count("function") /\ functionDepth = Count("prefix")
  /\ sourceDepth = Count("source")
  /\ functionDepth <= MaxFunctionDepth /\ sourceDepth <= MaxSourceDepth

-----------------------------------------------------------------------------
(* The scopes that the saved values stand for. *)

\* A scope's binding of n is what the next layer that binds n has saved.
BindingIn(l, n) ==
  LET above == {j \in (l + 1)..Len(layers) : n \in DOMAIN layers[j].saved}
      s == IF above = {} THEN Current(n) ELSE layers[Min(above)].saved[n]
  IN [value |-> s.value, exported |-> s.exported]

ArgumentsIn(l) == IF l = Len(layers) THEN position ELSE layers[l + 1].previous

ScopeOf(kind, l, names) ==
  [kind |-> kind, vars |-> [n \in names |-> BindingIn(l, n)], args |-> ArgumentsIn(l)]

ScopesOf ==
  << ScopeOf("global", 0, Names) >> \o
  [l \in 1..Len(layers) |->
     ScopeOf(IF layers[l].kind = "function" THEN "function" ELSE "prefix", l,
             DOMAIN layers[l].saved)]

Abstract == INSTANCE DynamicScope WITH
  Bindings <- [value : AllValues, exported : BOOLEAN], scopes <- ScopesOf

\* The first `local n` of a function under a prefix assignment to n that ends
\* before the function does: one of the builtin itself (x=1 local x), or of a
\* file that is sourced by the function.  What `local` saves as the caller's is
\* the prefix's binding; what the caller has goes into the function's scope.
LocalUnderPrefix(prefix, n, v) ==
  /\ Local(prefix, n, v)
  /\ n \notin DOMAIN layers[InnermostFrame].saved
  /\ IF n \in DOMAIN prefix
     THEN ScopesOf' = Abstract!Displaced(ScopesOf, n, [value |-> prefix[n], exported |-> TRUE])
     ELSE /\ \E l \in (InnermostFrame + 1)..Len(layers) : n \in DOMAIN layers[l].saved
          /\ Abstract!Assign(Abstract!Displaced(ScopesOf, n, BindingIn(Len(layers), n)),
                             ScopesOf', n)

\* Saving and restoring one map of variables is a stack of scopes: every lookup,
\* local or prefixed, after any sequence of calls, returns and assignments, finds
\* what the innermost scope binds, and a scope's bindings end with it.  The only
\* step that is none of a stack of scopes is LocalUnderPrefix, and it does to the
\* scopes what is said there and no more.
StackOfScopes ==
  /\ Abstract!Init
  /\ [][\/ Abstract!Next
        \/ \E prefix \in PrefixAssignments, n \in Names, v \in Values :
             LocalUnderPrefix(prefix, n, v)]_ScopesOf

=============================================================================
