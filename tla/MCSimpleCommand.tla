--------------------------- MODULE MCSimpleCommand --------------------------
(* Commands for TLC: redirections alone; a builtin behind command; a       *)
(* utility that may also be a function; a host command with a translation, *)
(* behind exec.                                                            *)
EXTENDS SimpleCommand

CONSTANTS f1, f2

MCFds == {0, 1, 3}
MCFiles == {f1, f2}
MCFunctionNames == {"cat"}
MCBuiltins == {"command", "exec", "echo"}
MCUtilities == {"cat"}
MCCommands == {<< >>, <<"cat">>, <<"command", "echo">>, <<"exec", "apt">>}
MCContexts == {"body", "reader", "substitution"}
MCTranslations == {<< <<"apt">>, <<"brew">> >>}

=============================================================================
