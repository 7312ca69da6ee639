CONSTANTS
  f1 = f1
  f2 = f2
  Fds <- MCFds
  Files <- MCFiles
  Contexts <- MCContexts
  FunctionNames <- MCFunctionNames
  Commands <- MCCommands
  Builtins <- MCBuiltins
  Utilities <- MCUtilities
  Translations <- MCTranslations
  MaxNesting = 2
  MaxRedirects = 2
SPECIFICATION Spec
INVARIANTS TypeOK ApprovedBeforeEffect FilesOutliveUse
PROPERTIES RefinesDescriptorTable
