------------------------ MODULE SimpleCommandProofs -------------------------
(***************************************************************************)
(* The simple commands of SimpleCommand, for any commands, translations,   *)
(* descriptors, files, nesting and number of redirections.                 *)
(*                                                                         *)
(* A step does one of three things to the commands in progress: it begins  *)
(* one, it replaces the innermost, or it ends the innermost.  What each of *)
(* these keeps is proved once; the actions then only say which of the      *)
(* three they are and what they do to the command.                         *)
(***************************************************************************)
EXTENDS SimpleCommand, SequenceTheorems, TLAPS

\* What is behind the leading command and exec, and may be nothing.
Behind(words, all) ==
  \E i \in 1..(Len(all) + 1) :
    /\ words = SubSeq(all, i, Len(all))
    /\ \A k \in 1..(i - 1) : all[k] \in {"command", "exec"}

\* How far a command is, and what the policy has seen of it by then.
Seen(c) ==
  /\ c.step = "words" => c.files = {}
  /\ c.step \in {"words", "redirect", "dispatch", "command", "handlers"} => c.did = NoRun
  /\ c.step \in {"redirect", "dispatch", "handlers"} => c.approved = c.words
  /\ c.step = "dispatch" => c.words # << >>
  /\ c.step = "command" => Behind(c.words, c.approved)

\* ApprovedBeforeEffect, of one command.
Approved(c) ==
  /\ c.files # {} /\ c.words # << >> => c.approved # << >>
  /\ c.step = "handlers" => c.approved = c.words
  /\ c.did.kind = "builtin" => c.did.words \in Leading(c.approved)
  /\ c.did.kind \in {"function", "handler", "utility", "host"} => c.did.words = c.approved

Sound(c) == Seen(c) /\ Approved(c)

IInv ==
  /\ TypeOK
  /\ \A i \in DOMAIN frames : Sound(frames[i])
  /\ FilesOutliveUse

-----------------------------------------------------------------------------
LEMMA FrontProperties ==
  ASSUME NEW S, NEW s \in Seq(S), s # << >>
  PROVE  /\ Front(s) \in Seq(S) /\ Len(Front(s)) = Len(s) - 1
         /\ DOMAIN Front(s) = 1..(Len(s) - 1)
         /\ \A i \in 1..(Len(s) - 1) : Front(s)[i] = s[i]
<1>1. Len(s) \in Nat \ {0} /\ \A i \in 1..(Len(s) - 1) : s[i] \in S
  OBVIOUS
<1> DEFINE n == Len(s) - 1
<1>2. n \in Nat /\ \A i \in 1..n : s[i] \in S
  BY <1>1
<1> HIDE DEF n
<1>3. /\ SubSeq(s, 1, n) \in Seq(S)
      /\ Len(SubSeq(s, 1, n)) = IF 1 <= n THEN n - 1 + 1 ELSE 0
      /\ \A i \in 1..(n - 1 + 1) : SubSeq(s, 1, n)[i] = s[1 + i - 1]
  BY <1>2, SubSeqProperties
<1>4. Front(s) = SubSeq(s, 1, n)
  BY DEF Front, n
<1>5. /\ Front(s) \in Seq(S) /\ Len(Front(s)) = n /\ DOMAIN Front(s) = 1..n
      /\ \A i \in 1..n : Front(s)[i] = s[i]
  BY <1>2, <1>3, <1>4
<1> QED
  BY <1>5 DEF n

LEMMA TopIsFrame ==
  ASSUME IInv, frames # << >>
  PROVE  /\ frames \in Seq(Frame) /\ Len(frames) \in Nat \ {0}
         /\ Top = frames[Len(frames)] /\ Top \in Frame /\ Sound(Top)
  BY DEF IInv, TypeOK, Top, Last

LEMMA FilesClear ==
  /\ Null \notin Files /\ Nothing \notin Files
  /\ "run" \notin Files /\ "pipe" \notin Files /\ "capture" \notin Files /\ "text" \notin Files
  BY FilesAssumption

\* A command ends: what it opened is closed, and nothing else.
LEMMA LeaveInv ==
  ASSUME IInv, frames # << >>, Leave, functions' \subseteq FunctionNames
  PROVE  IInv'
<1> DEFINE n == Len(frames)
<1>1. frames \in Seq(Frame) /\ n \in Nat \ {0} /\ Top = frames[n]
  BY TopIsFrame
<1> HIDE DEF n
<1>2. /\ frames' \in Seq(Frame) /\ Len(frames') = n - 1 /\ DOMAIN frames' = 1..(n - 1)
      /\ \A i \in 1..(n - 1) : frames'[i] = frames[i]
  BY <1>1, FrontProperties DEF Leave, n
<1>3. DOMAIN frames = 1..n
  BY <1>1 DEF n
<1>4. open' = open \ frames[n].files
  BY <1>1 DEF Leave
<1>5. TypeOK'
  BY <1>1, <1>2, <1>3, <1>4 DEF IInv, TypeOK, n
<1>6. \A i \in DOMAIN frames' : Sound(frames'[i])
  BY <1>1, <1>2, <1>3 DEF IInv
<1>7. open' = UNION {frames'[i].files : i \in DOMAIN frames'}
  <2>1. open = UNION {frames[i].files : i \in 1..n}
    BY <1>3 DEF IInv, FilesOutliveUse
  <2>2. \A i \in 1..(n - 1) : frames[i].files \cap frames[n].files = {}
    BY <1>1, <1>3 DEF IInv, FilesOutliveUse
  <2> QED
    BY <1>1, <1>2, <1>4, <2>1, <2>2
<1>8. \A i, j \in DOMAIN frames' : i < j => frames'[i].files \cap frames'[j].files = {}
  BY <1>1, <1>2, <1>3 DEF IInv, FilesOutliveUse
<1>9. \A i \in DOMAIN frames' :
        Held(frames'[i]) \cap Files \subseteq UNION {frames'[j].files : j \in 1..i}
  <2> SUFFICES ASSUME NEW i \in 1..(n - 1)
               PROVE  Held(frames'[i]) \cap Files \subseteq UNION {frames'[j].files : j \in 1..i}
    BY <1>2
  <2>1. Held(frames[i]) \cap Files \subseteq UNION {frames[j].files : j \in 1..i}
    BY <1>1, <1>3 DEF IInv, FilesOutliveUse
  <2>2. \A j \in 1..i : frames'[j] = frames[j]
    BY <1>1, <1>2
  <2> QED
    BY <1>1, <1>2, <2>1, <2>2
<1> QED
  BY <1>5, <1>6, <1>7, <1>8, <1>9 DEF IInv, FilesOutliveUse, Held

\* The innermost command changes, and opens the files N.
LEMMA BecomesInv ==
  ASSUME IInv, frames # << >>, functions' \subseteq FunctionNames,
         NEW c \in Frame, Becomes(c), Sound(c),
         NEW N \in SUBSET Files, N \cap open = {}, open' = open \cup N,
         c.files = Top.files \cup N, Held(c) \cap Files \subseteq Held(Top) \cup N
  PROVE  IInv'
<1> DEFINE n == Len(frames)
<1>1. frames \in Seq(Frame) /\ n \in Nat \ {0} /\ Top = frames[n]
  BY TopIsFrame
<1> HIDE DEF n
<1>2. /\ frames' \in Seq(Frame) /\ Len(frames') = n /\ DOMAIN frames' = 1..n
      /\ \A i \in 1..(n - 1) : frames'[i] = frames[i]
      /\ frames'[n] = c
  <2>1. /\ Front(frames) \in Seq(Frame) /\ Len(Front(frames)) = n - 1
        /\ \A i \in 1..(n - 1) : Front(frames)[i] = frames[i]
    BY <1>1, FrontProperties DEF n
  <2> QED
    BY <1>1, <2>1, AppendProperties DEF Becomes
<1>3. DOMAIN frames = 1..n
  BY <1>1 DEF n
<1>4. /\ open = UNION {frames[i].files : i \in 1..n}
      /\ \A i, j \in 1..n : i < j => frames[i].files \cap frames[j].files = {}
      /\ \A i \in 1..n : Held(frames[i]) \cap Files \subseteq UNION {frames[j].files : j \in 1..i}
  BY <1>3 DEF IInv, FilesOutliveUse
<1>5. TypeOK'
  BY <1>1, <1>2, <1>3 DEF IInv, TypeOK, n
<1>6. \A i \in DOMAIN frames' : Sound(frames'[i])
  BY <1>1, <1>2, <1>3 DEF IInv
<1>7. open' = UNION {frames'[i].files : i \in DOMAIN frames'}
  BY <1>1, <1>2, <1>4
<1>8. \A i, j \in DOMAIN frames' : i < j => frames'[i].files \cap frames'[j].files = {}
  <2> SUFFICES ASSUME NEW i \in 1..n, NEW j \in 1..n, i < j
               PROVE  frames'[i].files \cap frames'[j].files = {}
    BY <1>2
  <2>1. CASE j < n
    BY <1>1, <1>2, <1>4, <2>1
  <2>2. CASE j = n
    <3>1. frames[i].files \subseteq open
      BY <1>4
    <3> QED
      BY <1>1, <1>2, <1>4, <2>2, <3>1
  <2> QED
    BY <1>1, <2>1, <2>2
<1>9. \A i \in DOMAIN frames' :
        Held(frames'[i]) \cap Files \subseteq UNION {frames'[j].files : j \in 1..i}
  <2> SUFFICES ASSUME NEW i \in 1..n
               PROVE  Held(frames'[i]) \cap Files \subseteq UNION {frames'[j].files : j \in 1..i}
    BY <1>2
  <2>1. \A j \in 1..i : frames[j].files \subseteq frames'[j].files
    BY <1>1, <1>2
  <2>2. CASE i < n
    BY <1>1, <1>2, <1>4, <2>1, <2>2
  <2>3. CASE i = n
    BY <1>1, <1>2, <1>4, <2>1, <2>3
  <2> QED
    BY <1>1, <2>2, <2>3
<1> QED
  BY <1>5, <1>6, <1>7, <1>8, <1>9 DEF IInv, FilesOutliveUse, Held

\* A command begins, with no more than the streams of the one around it.
LEMMA AppendInv ==
  ASSUME IInv, frames = << >> \/ Top.step \in {"words", "redirect", "body"},
         UNCHANGED <<functions, open>>,
         NEW c \in Frame, frames' = Append(frames, c), Sound(c), c.files = {},
         Held(c) \cap Files \subseteq (IF frames = << >> THEN {} ELSE Held(Top))
  PROVE  IInv'
<1> DEFINE n == Len(frames)
<1>1. frames \in Seq(Frame) /\ n \in Nat /\ DOMAIN frames = 1..n
  BY DEF IInv, TypeOK
<1>2. frames # << >> => n > 0 /\ Top = frames[n]
  BY <1>1 DEF Top, Last
<1> HIDE DEF n
<1>3. /\ frames' \in Seq(Frame) /\ Len(frames') = n + 1 /\ DOMAIN frames' = 1..(n + 1)
      /\ \A i \in 1..n : frames'[i] = frames[i]
      /\ frames'[n + 1] = c
  BY <1>1 DEF n
<1>4. /\ open = UNION {frames[i].files : i \in 1..n}
      /\ \A i, j \in 1..n : i < j => frames[i].files \cap frames[j].files = {}
      /\ \A i \in 1..n : Held(frames[i]) \cap Files \subseteq UNION {frames[j].files : j \in 1..i}
  BY <1>1 DEF IInv, FilesOutliveUse
<1>5. TypeOK'
  BY <1>1, <1>2, <1>3 DEF IInv, TypeOK, n
<1>6. \A i \in DOMAIN frames' : Sound(frames'[i])
  BY <1>1, <1>3 DEF IInv
<1>7. open' = UNION {frames'[i].files : i \in DOMAIN frames'}
  BY <1>1, <1>3, <1>4
<1>8. \A i, j \in DOMAIN frames' : i < j => frames'[i].files \cap frames'[j].files = {}
  BY <1>1, <1>3, <1>4
<1>9. \A i \in DOMAIN frames' :
        Held(frames'[i]) \cap Files \subseteq UNION {frames'[j].files : j \in 1..i}
  <2> SUFFICES ASSUME NEW i \in 1..(n + 1)
               PROVE  Held(frames'[i]) \cap Files \subseteq UNION {frames'[j].files : j \in 1..i}
    BY <1>3
  <2>1. CASE i \in 1..n
    BY <1>1, <1>3, <1>4, <2>1
  <2>2. CASE i = n + 1 /\ frames = << >>
    BY <1>1, <1>3, <2>2
  <2>3. CASE i = n + 1 /\ frames # << >>
    <3>1. Held(c) \cap Files \subseteq UNION {frames[j].files : j \in 1..n}
      BY <1>1, <1>2, <1>4, <2>3
    <3> QED
      BY <1>1, <1>3, <2>3, <3>1
  <2> QED
    BY <1>1, <2>1, <2>2, <2>3
<1> QED
  BY <1>5, <1>6, <1>7, <1>8, <1>9 DEF IInv, FilesOutliveUse, Held


-----------------------------------------------------------------------------
\* What the two representations of the descriptors hold, and nothing more.
LEMMA SyncedHolds ==
  ASSUME NEW fds \in [Fds -> Descriptor]
  PROVE  /\ Synced(fds) \in [Standard -> Streams \cup {Null}]
         /\ \A fd \in Standard :
              Synced(fds)[fd] \in Files => Synced(fds)[fd] \in {fds[fd].r, fds[fd].w}
<1>1. Standard \subseteq Fds
  BY DEF Standard
<1>2. \A fd \in Standard : fds[fd].r \in Streams \cup {Null, Nothing}
                             /\ fds[fd].w \in Streams \cup {Null, Nothing}
  BY <1>1 DEF Descriptor
<1>3. \A fd \in Standard :
        Synced(fds)[fd] = LET s == IF fd = 0 THEN fds[fd].r ELSE fds[fd].w
                          IN  IF s = Nothing THEN Null ELSE s
  BY DEF Synced
<1>4. \A fd \in Standard : Synced(fds)[fd] \in Streams \cup {Null}
  BY <1>2, <1>3
<1>5. Synced(fds) \in [Standard -> Streams \cup {Null}]
  BY <1>3, <1>4 DEF Synced
<1> QED
  BY <1>3, <1>5, FilesClear

LEMMA CopiedHolds ==
  ASSUME NEW std \in [Standard -> Streams \cup {Null}], NEW fds \in [Fds -> Descriptor]
  PROVE  /\ Copied(std, fds) \in [Fds -> Descriptor]
         /\ \A fd \in Fds :
              \/ Copied(std, fds)[fd] = fds[fd]
              \/ /\ fd \in Standard
                 /\ {Copied(std, fds)[fd].r, Copied(std, fds)[fd].w} = {std[fd], Nothing}
<1>1. \A fd \in Standard : Reads(std[fd]) \in Descriptor /\ Writes(std[fd]) \in Descriptor
  BY DEF Reads, Writes, Descriptor
<1>2. \A fd \in Fds :
        Copied(std, fds)[fd] = IF fd \notin Standard THEN fds[fd]
                               ELSE IF fd = 0 THEN Reads(std[fd]) ELSE Writes(std[fd])
  BY DEF Copied
<1>3. Copied(std, fds) \in [Fds -> Descriptor]
  BY <1>1, <1>2 DEF Copied
<1> QED
  BY <1>2, <1>3 DEF Reads, Writes

LEMMA HeldAreStreams ==
  ASSUME NEW c
  PROVE  \A s : s \in Held(c) <=>
           \/ \E fd \in Fds : s \in {c.fds[fd].r, c.fds[fd].w}
           \/ \E fd \in Standard : s = c.std[fd]
  BY DEF Held

-----------------------------------------------------------------------------
\* The innermost command goes on, with the descriptors it has.
LEMMA GoesOn ==
  ASSUME IInv, frames # << >>, functions' \subseteq FunctionNames, UNCHANGED open,
         NEW c \in Frame, Becomes(c), Sound(c),
         c.files = Top.files, c.std = Top.std, c.fds = Top.fds
  PROVE  IInv'
<1>1. Held(c) = Held(Top)
  BY DEF Held
<1>2. /\ {} \in SUBSET Files /\ {} \cap open = {} /\ open' = open \cup {}
      /\ c.files = Top.files \cup {} /\ Held(c) \cap Files \subseteq Held(Top) \cup {}
  BY <1>1
<1> QED
  BY <1>2, BecomesInv

LEMMA BeginInv ==
  ASSUME IInv, NEW words \in Commands, NEW context \in Contexts, Begin(words, context)
  PROVE  IInv'
<1> DEFINE s == Given(context)
           c == [step |-> "words", words |-> words, approved |-> << >>, std |-> s.std,
                 fds |-> s.fds, files |-> {}, redirects |-> 0, did |-> NoRun]
           parent == IF frames = << >>
                     THEN [std |-> [fd \in Standard |-> "run"], fds |-> NoFds]
                     ELSE [std |-> Top.std, fds |-> Top.fds]
           around == IF frames = << >> THEN {} ELSE Held(Top)
<1>1. frames' = Append(frames, c) /\ UNCHANGED <<functions, open>>
  BY DEF Begin
<1>2. frames = << >> \/ Top.step \in {"words", "redirect", "body"}
  BY DEF Begin, ContextsHere, At
<1>3. NoFds \in [Fds -> Descriptor] /\ \A fd \in Fds : NoFds[fd] = Closed
  BY DEF NoFds, Closed, Descriptor
<1>4. /\ parent.std \in [Standard -> Streams \cup {Null}] /\ parent.fds \in [Fds -> Descriptor]
      /\ \A fd \in Standard : parent.std[fd] \in Files => parent.std[fd] \in around
      /\ \A fd \in Fds : {parent.fds[fd].r, parent.fds[fd].w} \cap Files \subseteq around
  <2>1. CASE frames = << >>
    BY <1>3, <2>1, FilesClear DEF Closed, Streams
  <2>2. CASE frames # << >>
    <3>1. Top \in Frame
      BY <2>2, TopIsFrame
    <3>2. parent.std = Top.std /\ parent.fds = Top.fds /\ around = Held(Top)
      BY <2>2
    <3> QED
      BY <3>1, <3>2, HeldAreStreams DEF Frame
  <2> QED
    BY <2>1, <2>2
<1> HIDE DEF parent
<1>5. /\ s.std \in [Standard -> Streams \cup {Null}]
      /\ \A fd \in Standard : s.std[fd] = parent.std[fd] \/ s.std[fd] \in {"pipe", "capture"}
      /\ s.fds = parent.fds \/ s.fds = NoFds
  <2>1. {"pipe", "capture"} \subseteq Streams
    BY DEF Streams
  <2>2. CASE context = "reader"
    <3>1. s = [parent EXCEPT !.std[0] = "pipe"]
      BY <2>2 DEF Given, parent
    <3>2. s.std = [parent.std EXCEPT ![0] = "pipe"] /\ s.fds = parent.fds
      BY <3>1 DEF parent
    <3> QED
      BY <1>4, <2>1, <3>2
  <2>3. CASE context = "writer"
    <3>1. s = [parent EXCEPT !.std = [fd \in Standard |-> IF fd = 1 THEN "pipe" ELSE @[fd]]]
      BY <2>3 DEF Given, parent
    <3>2. /\ s.std = [fd \in Standard |-> IF fd = 1 THEN "pipe" ELSE parent.std[fd]]
          /\ s.fds = parent.fds
      BY <3>1 DEF parent
    <3> QED
      BY <1>4, <2>1, <3>2
  <2>4. CASE context = "substitution"
    <3>1. s = [std |-> [fd \in Standard |-> IF fd = 1 THEN "capture" ELSE parent.std[fd]],
               fds |-> NoFds]
      BY <2>4 DEF Given, parent
    <3> QED
      BY <1>4, <2>1, <3>1
  <2>5. CASE context \notin {"reader", "writer", "substitution"}
    <3>1. s = parent
      BY <2>5 DEF Given, parent
    <3> QED
      BY <1>4, <3>1
  <2> QED
    BY <2>2, <2>3, <2>4, <2>5
<1> HIDE DEF s
<1>6. c \in Frame
  <2>1. words \in Seq(Vocabulary) /\ << >> \in Seq(Vocabulary)
    BY WordsAssumption
  <2> QED
    BY <1>3, <1>4, <1>5, <2>1 DEF Frame, Steps, NoRun
<1>7. Sound(c)
  BY DEF Sound, Seen, Approved, NoRun
<1>8. Held(c) \cap Files \subseteq around
  <2> SUFFICES ASSUME NEW f \in Files, f \in Held(c) PROVE f \in around
    OBVIOUS
  <2>1. CASE \E fd \in Fds : f \in {s.fds[fd].r, s.fds[fd].w}
    BY <1>3, <1>4, <1>5, <2>1, FilesClear DEF Closed
  <2>2. CASE \E fd \in Standard : f = s.std[fd]
    BY <1>4, <1>5, <2>2, FilesClear
  <2> QED
    BY <2>1, <2>2, HeldAreStreams
<1> HIDE DEF c
<1> QED
  BY <1>1, <1>2, <1>6, <1>7, <1>8, AppendInv DEF c

LEMMA DefineInv ==
  ASSUME IInv, NEW name \in FunctionNames, Define(name)
  PROVE  IInv'
  BY DEF Define, IInv, TypeOK, FilesOutliveUse, Held

LEMMA AuthorizeInv == IInv /\ Authorize => IInv'
<1> SUFFICES ASSUME IInv, Authorize PROVE IInv'
  OBVIOUS
<1> DEFINE fds == Copied(Top.std, Top.fds)
           c == [Top EXCEPT !.step = "redirect", !.approved = Top.words, !.fds = fds]
<1>1. /\ frames # << >> /\ Top.step = "words" /\ Becomes(c) /\ UNCHANGED <<functions, open>>
  BY DEF Authorize, At
<1>2. Top \in Frame /\ Sound(Top)
  BY <1>1, TopIsFrame
<1>3. /\ fds \in [Fds -> Descriptor]
      /\ \A fd \in Fds : \/ fds[fd] = Top.fds[fd]
                         \/ fd \in Standard /\ {fds[fd].r, fds[fd].w} = {Top.std[fd], Nothing}
  BY <1>2, CopiedHolds DEF Frame
<1> HIDE DEF fds
<1>4. c \in Frame /\ c.files = Top.files /\ c.std = Top.std /\ c.fds = fds
  BY <1>2, <1>3 DEF Frame, Steps
<1>5. Sound(c)
  BY <1>1, <1>2 DEF Sound, Seen, Approved, Frame, NoRun
<1> HIDE DEF c
<1>6. Held(c) \cap Files \subseteq Held(Top)
  <2> SUFFICES ASSUME NEW f \in Files, f \in Held(c) PROVE f \in Held(Top)
    OBVIOUS
  <2>1. CASE \E fd \in Fds : f \in {fds[fd].r, fds[fd].w}
    <3>1. PICK fd \in Fds : f \in {fds[fd].r, fds[fd].w}
      BY <2>1
    <3>2. CASE fds[fd] = Top.fds[fd]
      BY <3>1, <3>2, HeldAreStreams
    <3>3. CASE fd \in Standard /\ {fds[fd].r, fds[fd].w} = {Top.std[fd], Nothing}
      <4>1. f = Top.std[fd]
        BY <3>1, <3>3, FilesClear
      <4> QED
        BY <3>3, <4>1, HeldAreStreams
    <3> QED
      BY <1>3, <3>2, <3>3
  <2>2. CASE \E fd \in Standard : f = Top.std[fd]
    BY <2>2, HeldAreStreams
  <2> QED
    BY <1>4, <2>1, <2>2, HeldAreStreams
<1>7. /\ {} \in SUBSET Files /\ {} \cap open = {} /\ open' = open \cup {}
      /\ c.files = Top.files \cup {} /\ Held(c) \cap Files \subseteq Held(Top) \cup {}
      /\ functions' \subseteq FunctionNames
  BY <1>1, <1>4, <1>6 DEF IInv, TypeOK
<1> QED
  BY <1>1, <1>4, <1>5, <1>7, BecomesInv

\* The innermost command after a redirection that opened the files N.
Changed(fd, d, N) ==
  [Top EXCEPT !.fds = [Top.fds EXCEPT ![fd] = d], !.std = Synced([Top.fds EXCEPT ![fd] = d]),
              !.redirects = @ + 1, !.files = @ \cup N]

\* Descriptor fd becomes d, which is a stream the command holds or a file of N.
LEMMA SetInv ==
  ASSUME IInv, At("redirect"), UNCHANGED functions,
         NEW fd \in Fds, NEW d \in Descriptor,
         NEW N \in SUBSET Files, N \cap open = {}, open' = open \cup N,
         {d.r, d.w} \cap Files \subseteq Held(Top) \cup N,
         Becomes(Changed(fd, d, N))
  PROVE  IInv'
<1>1. frames # << >> /\ Top.step = "redirect"
  BY DEF At
<1>2. Top \in Frame /\ Sound(Top)
  BY <1>1, TopIsFrame
<1> DEFINE fds == [Top.fds EXCEPT ![fd] = d]
<1>3. fds \in [Fds -> Descriptor] /\ \A k \in Fds : fds[k] = d \/ fds[k] = Top.fds[k]
  BY <1>2 DEF Frame
<1> DEFINE c == Changed(fd, d, N)
<1>4. c = [Top EXCEPT !.fds = fds, !.std = Synced(fds), !.redirects = @ + 1, !.files = @ \cup N]
  BY DEF Changed
<1> HIDE DEF fds, c
<1>5. /\ Synced(fds) \in [Standard -> Streams \cup {Null}]
      /\ \A k \in Standard : Synced(fds)[k] \in Files => Synced(fds)[k] \in {fds[k].r, fds[k].w}
  BY <1>3, SyncedHolds
<1>6. /\ c \in Frame /\ c.step = Top.step /\ c.words = Top.words
      /\ c.approved = Top.approved /\ c.did = Top.did
      /\ c.std = Synced(fds) /\ c.fds = fds /\ c.files = Top.files \cup N
  <2>1. /\ Top.step \in Steps /\ Top.words \in Seq(Vocabulary)
        /\ Top.approved \in Seq(Vocabulary) /\ Top.files \cup N \in SUBSET Files
        /\ Top.redirects + 1 \in Nat
        /\ Top.did \in [kind : {"none", "function", "builtin", "handler", "utility", "host"},
                       words : Seq(Vocabulary)]
    BY <1>2 DEF Frame
  <2>2. c = [step |-> Top.step, words |-> Top.words, approved |-> Top.approved,
             std |-> Synced(fds), fds |-> fds, files |-> Top.files \cup N,
             redirects |-> Top.redirects + 1, did |-> Top.did]
    BY <1>2, <1>4 DEF Frame
  <2>3. c \in Frame
    BY <1>3, <1>5, <2>1, <2>2 DEF Frame
  <2> QED
    BY <2>2, <2>3
<1>7. Sound(c)
  BY <1>1, <1>2, <1>6 DEF Sound, Seen, Approved, NoRun
<1>8. Held(c) \cap Files \subseteq Held(Top) \cup N
  <2> SUFFICES ASSUME NEW f \in Files, f \in Held(c) PROVE f \in Held(Top) \cup N
    OBVIOUS
  <2>1. PICK k \in Fds : f \in {fds[k].r, fds[k].w}
    <3>1. Standard \subseteq Fds
      BY DEF Standard
    <3>2. CASE \E k \in Fds : f \in {c.fds[k].r, c.fds[k].w}
      BY <1>6, <3>2
    <3>3. CASE \E k \in Standard : f = c.std[k]
      <4>1. PICK k \in Standard : f = Synced(fds)[k]
        BY <1>6, <3>3
      <4>2. k \in Fds /\ f \in {fds[k].r, fds[k].w}
        BY <1>5, <3>1, <4>1
      <4> QED
        BY <4>2
    <3> QED
      BY <3>2, <3>3, HeldAreStreams
  <2> QED
    BY <1>3, <2>1, HeldAreStreams
<1>9. functions' \subseteq FunctionNames
  BY DEF IInv, TypeOK
<1> QED
  BY <1>1, <1>6, <1>7, <1>8, <1>9, BecomesInv DEF c

-----------------------------------------------------------------------------
LEMMA Leaves ==
  ASSUME IInv, frames # << >>, Leave, UNCHANGED functions
  PROVE  IInv'
<1>1. functions' \subseteq FunctionNames
  BY DEF IInv, TypeOK
<1> QED
  BY <1>1, LeaveInv

LEMMA EndsInv ==
  IInv /\ (Refuse \/ RedirectFails \/ CallFails \/ RefuseAgain \/ HostFails \/ End) => IInv'
  BY Leaves DEF Refuse, RedirectFails, CallFails, RefuseAgain, NotBuiltin, HostFails,
      HostIsNext, End, At

LEMMA OpenRedirectInv ==
  ASSUME IInv, NEW fd \in Fds, OpenRedirect(fd)
  PROVE  IInv'
<1> DEFINE f == CHOOSE f \in Files \ open : TRUE
<1>1. PICK d \in {Reads(f), Writes(f), [r |-> f, w |-> f]} : Becomes(Changed(fd, d, {f}))
  BY DEF OpenRedirect, Changed
<1>2. At("redirect") /\ Files # open /\ open' = open \cup {f} /\ UNCHANGED functions
  BY DEF OpenRedirect, RedirectIsNext
<1>3. open \subseteq Files
  BY DEF IInv, TypeOK
<1>4. f \in Files \ open
  BY <1>2, <1>3
<1> HIDE DEF f
<1>5. d \in Descriptor /\ {d.r, d.w} \cap Files \subseteq {f}
  BY <1>4, FilesClear DEF Reads, Writes, Descriptor, Streams
<1>6. /\ {f} \in SUBSET Files /\ {f} \cap open = {}
      /\ {d.r, d.w} \cap Files \subseteq Held(Top) \cup {f}
  BY <1>4, <1>5
<1> QED
  BY <1>1, <1>2, <1>5, <1>6, SetInv

\* The redirections that open nothing.
LEMMA OtherRedirectInv ==
  ASSUME IInv, NEW fd \in Fds, NEW d \in Descriptor, Set(fd, d), UNCHANGED <<functions, open>>,
         {d.r, d.w} \cap Files \subseteq Held(Top)
  PROVE  IInv'
<1> DEFINE c == [Top EXCEPT !.fds = [Top.fds EXCEPT ![fd] = d],
                            !.std = Synced([Top.fds EXCEPT ![fd] = d]), !.redirects = @ + 1]
<1>1. At("redirect") /\ Becomes(c)
  BY DEF Set, RedirectIsNext
<1>2. Top \in Frame
  BY <1>1, TopIsFrame DEF At
<1>3. c = Changed(fd, d, {})
  BY <1>2 DEF Frame, Changed
<1> HIDE DEF c
<1>4. /\ {} \in SUBSET Files /\ {} \cap open = {} /\ open' = open \cup {}
      /\ {d.r, d.w} \cap Files \subseteq Held(Top) \cup {}
  OBVIOUS
<1> QED
  BY <1>1, <1>3, <1>4, SetInv

LEMMA InlineRedirectInv ==
  ASSUME IInv, NEW fd \in Fds, InlineRedirect(fd)
  PROVE  IInv'
<1>1. Reads("text") \in Descriptor /\ {Reads("text").r, Reads("text").w} \cap Files = {}
  BY FilesClear DEF Reads, Descriptor, Streams
<1> QED
  BY <1>1, OtherRedirectInv DEF InlineRedirect

LEMMA CloseRedirectInv ==
  ASSUME IInv, NEW fd \in Fds, CloseRedirect(fd)
  PROVE  IInv'
<1>1. Closed \in Descriptor /\ {Closed.r, Closed.w} \cap Files = {}
  BY FilesClear DEF Closed, Descriptor
<1> QED
  BY <1>1, OtherRedirectInv DEF CloseRedirect

LEMMA DuplicateRedirectInv ==
  ASSUME IInv, NEW fd \in Fds, NEW other \in Fds, DuplicateRedirect(fd, other)
  PROVE  IInv'
<1>1. frames # << >> /\ Set(fd, Top.fds[other]) /\ UNCHANGED <<functions, open>>
  BY DEF DuplicateRedirect, At
<1>2. Top \in Frame
  BY <1>1, TopIsFrame
<1>3. Top.fds[other] \in Descriptor
  BY <1>2 DEF Frame
<1>4. {Top.fds[other].r, Top.fds[other].w} \cap Files \subseteq Held(Top)
  BY HeldAreStreams
<1> QED
  BY <1>1, <1>3, <1>4, OtherRedirectInv

-----------------------------------------------------------------------------
\* What is behind command and exec leads in what was approved, if it is
\* anything; and it is behind them, too, without another one of them.
LEMMA BehindLeads ==
  ASSUME NEW S, NEW words \in Seq(S), NEW all \in Seq(S), Behind(words, all), words # << >>
  PROVE  /\ all # << >> /\ words \in Leading(all)
         /\ Head(words) \in {"command", "exec"} => Behind(Tail(words), all)
<1>1. PICK i \in 1..(Len(all) + 1) :
        /\ words = SubSeq(all, i, Len(all))
        /\ \A k \in 1..(i - 1) : all[k] \in {"command", "exec"}
  BY DEF Behind
<1>2. Len(all) \in Nat
  OBVIOUS
<1>3. i \in 1..Len(all)
  BY <1>1, <1>2, SubSeqEmpty
<1>4. all # << >>
  BY <1>3
<1>5. words \in Leading(all)
  BY <1>1, <1>3 DEF Leading
<1>6. Head(words) = all[i] /\ Tail(words) = SubSeq(all, i + 1, Len(all))
  BY <1>1, <1>2, <1>3
<1>7. ASSUME Head(words) \in {"command", "exec"} PROVE Behind(Tail(words), all)
  <2>1. i + 1 \in 1..(Len(all) + 1) /\ \A k \in 1..(i + 1 - 1) : all[k] \in {"command", "exec"}
    BY <1>1, <1>2, <1>3, <1>6, <1>7
  <2>2. Tail(words) = SubSeq(all, i + 1, Len(all))
    BY <1>6
  <2>3. \E j \in 1..(Len(all) + 1) :
          /\ Tail(words) = SubSeq(all, j, Len(all))
          /\ \A k \in 1..(j - 1) : all[k] \in {"command", "exec"}
    <3> i + 1 \in 1..(Len(all) + 1)
      BY <2>1
    <3> WITNESS i + 1 \in 1..(Len(all) + 1)
    <3> QED
      BY <2>1, <2>2
  <2> QED
    BY <2>3 DEF Behind
<1> QED
  BY <1>4, <1>5, <1>7

\* Words are behind no command or exec of their own.
LEMMA BehindNothing ==
  ASSUME NEW S, NEW words \in Seq(S)
  PROVE  Behind(words, words)
<1>1. words = SubSeq(words, 1, Len(words)) /\ 1 \in 1..(Len(words) + 1)
  BY SubSeqFull
<1> QED
  BY <1>1 DEF Behind

-----------------------------------------------------------------------------
LEMMA AtTop ==
  ASSUME IInv, NEW step, At(step)
  PROVE  frames # << >> /\ Top.step = step /\ Top \in Frame /\ Sound(Top)
  BY TopIsFrame DEF At

LEMMA RedirectedInv == IInv /\ Redirected => IInv'
<1> SUFFICES ASSUME IInv, Redirected PROVE IInv'
  OBVIOUS
<1> DEFINE c == [Top EXCEPT !.step = IF Top.words = << >> THEN "end" ELSE "dispatch"]
<1>1. At("redirect") /\ Becomes(c) /\ UNCHANGED <<functions, open>>
  BY DEF Redirected
<1>2. frames # << >> /\ Top.step = "redirect" /\ Top \in Frame /\ Sound(Top)
  BY <1>1, AtTop
<1>3. c \in Frame /\ c.files = Top.files /\ c.std = Top.std /\ c.fds = Top.fds
  BY <1>2 DEF Frame, Steps
<1>4. Sound(c)
  BY <1>2 DEF Sound, Seen, Approved, Frame, NoRun
<1>5. functions' \subseteq FunctionNames
  BY <1>1 DEF IInv, TypeOK
<1> HIDE DEF c
<1> QED
  BY <1>1, <1>2, <1>3, <1>4, <1>5, GoesOn

\* Something runs with the words the policy has seen.
LEMMA RunsInv ==
  ASSUME IInv, frames # << >>, functions' \subseteq FunctionNames, UNCHANGED open,
         NEW kind \in {"function", "builtin", "handler", "utility", "host"},
         NEW next \in {"body", "end"}, Runs(kind, Top.words, next),
         Top.files # {} /\ Top.words # << >> => Top.approved # << >>,
         kind = "builtin" => Top.words \in Leading(Top.approved),
         kind # "builtin" => Top.words = Top.approved
  PROVE  IInv'
<1> DEFINE c == [Top EXCEPT !.did = [kind |-> kind, words |-> Top.words], !.step = next]
<1>1. Becomes(c)
  BY DEF Runs
<1>2. Top \in Frame
  BY TopIsFrame
<1>3. c \in Frame /\ c.files = Top.files /\ c.std = Top.std /\ c.fds = Top.fds
  BY <1>2 DEF Frame, Steps
<1>4. /\ c.step = next /\ c.words = Top.words /\ c.approved = Top.approved
      /\ c.did.kind = kind /\ c.did.words = Top.words
  BY <1>2 DEF Frame
<1> HIDE DEF c
<1>5. Sound(c)
  BY <1>3, <1>4 DEF Sound, Seen, Approved
<1> QED
  BY <1>1, <1>3, <1>5, GoesOn

LEMMA CallFunctionInv == IInv /\ CallFunction => IInv'
<1> SUFFICES ASSUME IInv, CallFunction PROVE IInv'
  OBVIOUS
<1>1. At("dispatch") /\ Runs("function", Top.words, "body") /\ UNCHANGED <<functions, open>>
  BY DEF CallFunction
<1>2. frames # << >> /\ Top.step = "dispatch" /\ Sound(Top)
  BY <1>1, AtTop
<1>3. Top.approved = Top.words /\ functions' \subseteq FunctionNames
  BY <1>1, <1>2 DEF Sound, Seen, IInv, TypeOK
<1> QED
  BY <1>1, <1>2, <1>3, RunsInv

\* A builtin is reached directly, or behind command and exec.
LEMMA BuiltinBehind ==
  ASSUME IInv, BuiltinIsNext
  PROVE  /\ frames # << >> /\ Top \in Frame /\ Sound(Top) /\ Top.did = NoRun
         /\ Top.words # << >> /\ Behind(Top.words, Top.approved)
<1>1. CASE At("dispatch")
  <2>1. Top.step = "dispatch" /\ frames # << >> /\ Top \in Frame /\ Sound(Top)
    BY <1>1, AtTop
  <2>2. Top.words \in Seq(Vocabulary)
    BY <2>1 DEF Frame
  <2>3. Behind(Top.words, Top.words)
    BY <2>2, BehindNothing
  <2> QED
    BY <2>1, <2>3 DEF Sound, Seen
<1>2. CASE At("command") /\ Top.words # << >>
  <2>1. Top.step = "command" /\ frames # << >> /\ Top \in Frame /\ Sound(Top)
    BY <1>2, AtTop
  <2> QED
    BY <1>2, <2>1 DEF Sound, Seen
<1> QED
  BY <1>1, <1>2 DEF BuiltinIsNext

LEMMA RunBuiltinInv == IInv /\ RunBuiltin => IInv'
<1> SUFFICES ASSUME IInv, RunBuiltin PROVE IInv'
  OBVIOUS
<1>1. PICK next \in {"end", "body"} : Runs("builtin", Top.words, next)
  BY DEF RunBuiltin
<1>2. BuiltinIsNext /\ functions' \subseteq FunctionNames /\ UNCHANGED open
  BY DEF RunBuiltin, IInv, TypeOK
<1>3. frames # << >> /\ Top \in Frame /\ Top.words # << >> /\ Behind(Top.words, Top.approved)
  BY <1>2, BuiltinBehind
<1>4. Top.words \in Seq(Vocabulary) /\ Top.approved \in Seq(Vocabulary)
  BY <1>3 DEF Frame
<1>5. Top.approved # << >> /\ Top.words \in Leading(Top.approved)
  BY <1>3, <1>4, BehindLeads
<1> QED
  BY <1>1, <1>2, <1>3, <1>5, RunsInv

LEMMA RunCommandInv == IInv /\ RunCommand => IInv'
<1> SUFFICES ASSUME IInv, RunCommand PROVE IInv'
  OBVIOUS
<1> DEFINE c == [Top EXCEPT !.words = Tail(@), !.step = "command"]
<1>1. /\ BuiltinIsNext /\ Head(Top.words) \in {"command", "exec"}
      /\ Becomes(c) /\ UNCHANGED <<functions, open>>
  BY DEF RunCommand
<1>2. /\ frames # << >> /\ Top \in Frame /\ Sound(Top) /\ Top.did = NoRun
      /\ Top.words # << >> /\ Behind(Top.words, Top.approved)
  BY <1>1, BuiltinBehind
<1>3. Top.words \in Seq(Vocabulary) /\ Top.approved \in Seq(Vocabulary)
  BY <1>2 DEF Frame
<1>4. Tail(Top.words) \in Seq(Vocabulary)
  BY <1>2, <1>3
<1>5. Top.approved # << >> /\ Behind(Tail(Top.words), Top.approved)
  BY <1>1, <1>2, <1>3, BehindLeads
<1>6. c \in Frame /\ c.files = Top.files /\ c.std = Top.std /\ c.fds = Top.fds
  BY <1>2, <1>4 DEF Frame, Steps
<1>7. /\ c.step = "command" /\ c.words = Tail(Top.words) /\ c.approved = Top.approved
      /\ c.did = NoRun
  BY <1>2 DEF Frame
<1> HIDE DEF c
<1>8. Sound(c)
  BY <1>5, <1>6, <1>7 DEF Sound, Seen, Approved, NoRun
<1>9. functions' \subseteq FunctionNames
  BY <1>1 DEF IInv, TypeOK
<1> QED
  BY <1>1, <1>2, <1>6, <1>8, <1>9, GoesOn

LEMMA CommandAnswersInv == IInv /\ CommandAnswers => IInv'
<1> SUFFICES ASSUME IInv, CommandAnswers PROVE IInv'
  OBVIOUS
<1> DEFINE c == [Top EXCEPT !.step = "end"]
<1>1. At("command") /\ Becomes(c) /\ UNCHANGED <<functions, open>>
  BY DEF CommandAnswers
<1>2. frames # << >> /\ Top.step = "command" /\ Top \in Frame /\ Sound(Top)
  BY <1>1, AtTop
<1>3. c \in Frame /\ c.files = Top.files /\ c.std = Top.std /\ c.fds = Top.fds
  BY <1>2 DEF Frame, Steps
<1>4. Sound(c)
  BY <1>2 DEF Sound, Seen, Approved, Frame, NoRun
<1>5. functions' \subseteq FunctionNames
  BY <1>1 DEF IInv, TypeOK
<1> HIDE DEF c
<1> QED
  BY <1>1, <1>2, <1>3, <1>4, <1>5, GoesOn

LEMMA AuthorizeAgainInv == IInv /\ AuthorizeAgain => IInv'
<1> SUFFICES ASSUME IInv, AuthorizeAgain PROVE IInv'
  OBVIOUS
<1> DEFINE c == [Top EXCEPT !.approved = Top.words, !.step = "handlers"]
<1>1. At("command") /\ Becomes(c) /\ UNCHANGED <<functions, open>>
  BY DEF AuthorizeAgain, NotBuiltin
<1>2. frames # << >> /\ Top.step = "command" /\ Top \in Frame /\ Sound(Top)
  BY <1>1, AtTop
<1>3. c \in Frame /\ c.files = Top.files /\ c.std = Top.std /\ c.fds = Top.fds
  BY <1>2 DEF Frame, Steps
<1>4. Sound(c)
  BY <1>2 DEF Sound, Seen, Approved, Frame, NoRun
<1>5. functions' \subseteq FunctionNames
  BY <1>1 DEF IInv, TypeOK
<1> HIDE DEF c
<1> QED
  BY <1>1, <1>2, <1>3, <1>4, <1>5, GoesOn

LEMMA AskHandlersInv == IInv /\ AskHandlers => IInv'
<1> SUFFICES ASSUME IInv, AskHandlers PROVE IInv'
  OBVIOUS
<1> DEFINE c == [Top EXCEPT !.step = "handlers"]
<1>1. At("dispatch") /\ Becomes(c) /\ UNCHANGED <<functions, open>>
  BY DEF AskHandlers
<1>2. frames # << >> /\ Top.step = "dispatch" /\ Top \in Frame /\ Sound(Top)
  BY <1>1, AtTop
<1>3. c \in Frame /\ c.files = Top.files /\ c.std = Top.std /\ c.fds = Top.fds
  BY <1>2 DEF Frame, Steps
<1>4. Sound(c)
  BY <1>2 DEF Sound, Seen, Approved, Frame, NoRun
<1>5. functions' \subseteq FunctionNames
  BY <1>1 DEF IInv, TypeOK
<1> HIDE DEF c
<1> QED
  BY <1>1, <1>2, <1>3, <1>4, <1>5, GoesOn

\* A handler, a utility or the host runs what the policy has seen.
LEMMA HandledInv == IInv /\ (HandlerRuns \/ RunUtility \/ RunHost) => IInv'
<1> SUFFICES ASSUME IInv, HandlerRuns \/ RunUtility \/ RunHost PROVE IInv'
  OBVIOUS
<1>1. /\ At("handlers") /\ UNCHANGED <<functions, open>>
      /\ \E kind \in {"handler", "utility", "host"} : Runs(kind, Top.words, "end")
  BY DEF HandlerRuns, RunUtility, RunHost, HostIsNext
<1>2. frames # << >> /\ Top.step = "handlers" /\ Sound(Top)
  BY <1>1, AtTop
<1>3. Top.approved = Top.words /\ functions' \subseteq FunctionNames
  BY <1>1, <1>2 DEF Sound, Seen, IInv, TypeOK
<1> QED
  BY <1>1, <1>2, <1>3, RunsInv

LEMMA RunTranslatedInv ==
  ASSUME IInv, NEW translation \in Translations, RunTranslated(translation[2])
  PROVE  IInv'
<1> DEFINE words == translation[2]
           c == [Top EXCEPT !.words = words, !.approved = words, !.step = "end",
                            !.did = [kind |-> "host", words |-> words]]
<1>1. At("handlers") /\ Becomes(c) /\ UNCHANGED <<functions, open>>
  BY DEF RunTranslated, HostIsNext
<1>2. frames # << >> /\ Top \in Frame
  BY <1>1, AtTop
<1>3. words \in Seq(Vocabulary)
  BY WordsAssumption
<1> HIDE DEF words
<1>4. c \in Frame /\ c.files = Top.files /\ c.std = Top.std /\ c.fds = Top.fds
  BY <1>2, <1>3 DEF Frame, Steps
<1>5. /\ c.step = "end" /\ c.words = words /\ c.approved = words
      /\ c.did.kind = "host" /\ c.did.words = words
  BY <1>2 DEF Frame
<1> HIDE DEF c
<1>6. Sound(c)
  BY <1>5 DEF Sound, Seen, Approved
<1>7. functions' \subseteq FunctionNames
  BY <1>1 DEF IInv, TypeOK
<1> QED
  BY <1>1, <1>2, <1>4, <1>6, <1>7, GoesOn

-----------------------------------------------------------------------------
LEMMA InitInv == Init => IInv
<1> SUFFICES ASSUME Init PROVE IInv
  OBVIOUS
<1>1. functions = {} /\ open = {} /\ frames = << >>
  BY DEF Init
<1>2. frames \in Seq(Frame) /\ DOMAIN frames = {} /\ 1..(Len(frames) - 1) = {}
  BY <1>1
<1> QED
  BY <1>1, <1>2 DEF IInv, TypeOK, FilesOutliveUse

LEMMA NextInv == IInv /\ [Next]_vars => IInv'
<1> SUFFICES ASSUME IInv, [Next]_vars PROVE IInv'
  OBVIOUS
<1>1. CASE \E words \in Commands, context \in Contexts : Begin(words, context)
  BY <1>1, BeginInv
<1>2. CASE \E name \in FunctionNames : Define(name)
  BY <1>2, DefineInv
<1>3. CASE Authorize
  BY <1>3, AuthorizeInv
<1>4. CASE \E fd \in Fds : \/ OpenRedirect(fd) \/ InlineRedirect(fd) \/ CloseRedirect(fd)
                           \/ \E other \in Fds : DuplicateRedirect(fd, other)
  BY <1>4, OpenRedirectInv, InlineRedirectInv, CloseRedirectInv, DuplicateRedirectInv
<1>5. CASE Refuse \/ RedirectFails \/ CallFails \/ RefuseAgain \/ HostFails \/ End
  BY <1>5, EndsInv
<1>6. CASE Redirected \/ CallFunction \/ RunBuiltin \/ RunCommand
  BY <1>6, RedirectedInv, CallFunctionInv, RunBuiltinInv, RunCommandInv
<1>7. CASE CommandAnswers \/ AuthorizeAgain \/ AskHandlers
  BY <1>7, CommandAnswersInv, AuthorizeAgainInv, AskHandlersInv
<1>8. CASE HandlerRuns \/ RunUtility \/ RunHost
  BY <1>8, HandledInv
<1>9. CASE \E translation \in Translations : RunTranslated(translation[2])
  BY <1>9, RunTranslatedInv
<1>10. CASE UNCHANGED vars
  BY <1>10 DEF vars, IInv, TypeOK, FilesOutliveUse, Held
<1> QED
  BY <1>1, <1>2, <1>3, <1>4, <1>5, <1>6, <1>7, <1>8, <1>9, <1>10 DEF Next

LEMMA Invariance == Spec => []IInv
  BY InitInv, NextInv, PTL DEF Spec

\* Streams, words and steps have their types, and only the innermost command
\* in progress is about to do something.
THEOREM TypeCorrect == Spec => []TypeOK
<1>1. IInv => TypeOK
  BY DEF IInv
<1> QED
  BY <1>1, Invariance, PTL

\* Whatever the commands, the translations and the nesting: nothing is opened,
\* runs or is handed to a handler before the policy has seen the words that do.
THEOREM NothingUnseen == Spec => []ApprovedBeforeEffect
<1>1. IInv => ApprovedBeforeEffect
  BY DEF IInv, Sound, Approved, ApprovedBeforeEffect
<1> QED
  BY <1>1, Invariance, PTL

\* However commands are nested and whatever fails: a file is open as long as
\* the command that opened it, and no command holds one that is closed.
THEOREM FilesHeld == Spec => []FilesOutliveUse
<1>1. IInv => FilesOutliveUse
  BY DEF IInv
<1> QED
  BY <1>1, Invariance, PTL

-----------------------------------------------------------------------------
(***************************************************************************)
(* SimpleCommand implements DescriptorTable: the fields of streams and the *)
(* map of descriptors behave as one table.  What it rests on is that the   *)
(* fields are what the map says, from the moment a command's streams are   *)
(* cloned (InLine).                                                        *)
(***************************************************************************)

TableOf(c) == IF c.step = "words" THEN Copied(c.std, c.fds) ELSE c.fds
UsedOf(c) == IF c.did = NoRun THEN << >> ELSE c.std
Tables == [i \in DOMAIN frames |-> TableOf(frames[i])]
Used == [i \in DOMAIN frames |-> UsedOf(frames[i])]

InLine(c) == c.step # "words" => c.std = Synced(c.fds)
AllInLine == \A i \in DOMAIN frames : InLine(frames[i])
RInv == IInv /\ AllInLine

-----------------------------------------------------------------------------
\* The steps of DescriptorTable, of the tables the commands have.
LEMMA MappedEnter ==
  ASSUME NEW context \in Contexts,
         Tables' = Append(Tables, Table!PassedOn(Table!In(context,
                     IF Tables = << >> THEN Table!AtStart ELSE Last(Tables)))),
         Used' = Append(Used, << >>)
  PROVE  Table!Next
<1>1. Table!Enter(context)
  BY DEF Table!Enter, Table!Last, Last, Tables, Used, TableOf, UsedOf
<1> QED
  BY <1>1 DEF Table!Next

LEMMA MappedSet ==
  ASSUME NEW fd \in Fds, NEW d, Tables # << >>, Last(Used) = << >>, UNCHANGED Used,
         Tables' = [Tables EXCEPT ![Len(Tables)][fd] = d],
         \/ d = Closed
         \/ \E stream \in Streams : d \in Table!Fresh(stream)
         \/ \E other \in Fds : Last(Tables)[other] # Closed /\ d = Last(Tables)[other]
  PROVE  Table!Next
<1>1. Table!Set(fd, d)
  BY DEF Table!Set, Table!Last, Last, Tables, Used, TableOf, UsedOf
<1>2. Table!Closed = Closed
  BY DEF Table!Closed, Closed, Table!Nothing, Nothing
<1>3. CASE d = Closed
  BY <1>1, <1>2, <1>3 DEF Table!Next
<1>4. CASE \E stream \in Streams : d \in Table!Fresh(stream)
  BY <1>1, <1>4 DEF Table!Next
<1>5. CASE \E other \in Fds : Last(Tables)[other] # Closed /\ d = Last(Tables)[other]
  <2>1. PICK other \in Fds : Last(Tables)[other] # Closed /\ d = Last(Tables)[other]
    BY <1>5
  <2>2. Table!Duplicate(fd, other)
    BY <1>1, <1>2, <2>1 DEF Table!Duplicate, Table!Set, Table!Last, Last, Tables, TableOf
  <2> QED
    BY <2>2 DEF Table!Next
<1> QED
  BY <1>3, <1>4, <1>5

LEMMA MappedUse ==
  ASSUME Tables # << >>, UNCHANGED Tables,
         Used' = Append(Front(Used), Table!StandardUse(Last(Tables)))
  PROVE  Table!Next
<1>1. Table!Use
  BY DEF Table!Use, Table!Last, Last, Table!Front, Front, Tables, Used, TableOf, UsedOf
<1> QED
  BY <1>1 DEF Table!Next

LEMMA MappedLeave ==
  ASSUME Tables # << >>, Tables' = Front(Tables), Used' = Front(Used)
  PROVE  Table!Next
<1>1. Table!Leave
  BY DEF Table!Leave, Table!Front, Front, Tables, Used, TableOf, UsedOf
<1> QED
  BY <1>1 DEF Table!Next

LEMMA MappedStutter ==
  ASSUME UNCHANGED <<Tables, Used>>
  PROVE  UNCHANGED Table!vars
  BY DEF Table!vars, Tables, Used, TableOf, UsedOf

LEMMA SameConstants ==
  /\ Table!Standard = Standard /\ Table!Nothing = Nothing /\ Table!Null = Null
  BY DEF Table!Standard, Standard, Table!Nothing, Nothing, Table!Null, Null

-----------------------------------------------------------------------------
\* Sequences that are given as functions.
IsList(n, f) == f = [i \in 1..n |-> f[i]]

LEMMA ListIsSeq ==
  ASSUME NEW n \in Nat, NEW f, IsList(n, f)
  PROVE  /\ f \in Seq({f[i] : i \in 1..n}) /\ Len(f) = n
         /\ n > 0 => f # << >> /\ Last(f) = f[n]
<1>1. f \in [1..n -> {f[i] : i \in 1..n}]
  BY DEF IsList
<1>2. f \in Seq({f[i] : i \in 1..n}) /\ Len(f) = n
  BY <1>1
<1> QED
  BY <1>2 DEF Last

\* Lists that agree everywhere are equal.
LEMMA SameList ==
  ASSUME NEW n \in Nat, NEW f, NEW g, IsList(n, f), IsList(n, g),
         \A i \in 1..n : g[i] = f[i]
  PROVE  g = f
  BY DEF IsList

\* A list that agrees with f but for its last element.
LEMMA ListReplaced ==
  ASSUME NEW n \in Nat \ {0}, NEW f, NEW g, NEW x, IsList(n, f), IsList(n, g),
         g[n] = x, \A i \in 1..(n - 1) : g[i] = f[i]
  PROVE  g = [f EXCEPT ![n] = x]
<1> DEFINE h == [f EXCEPT ![n] = x]
<1>1. DOMAIN f = 1..n /\ IsList(n, h)
  BY DEF IsList
<1>2. \A i \in 1..n : i = n \/ i \in 1..(n - 1)
  OBVIOUS
<1>3. h[n] = x /\ \A i \in 1..(n - 1) : h[i] = f[i]
  BY <1>1
<1> HIDE DEF h
<1>4. \A i \in 1..n : g[i] = h[i]
  BY <1>2, <1>3
<1>5. g = h
  BY <1>1, <1>4, SameList
<1> QED
  BY <1>5 DEF h

LEMMA ListFront ==
  ASSUME NEW n \in Nat \ {0}, NEW f, NEW g, IsList(n, f), IsList(n - 1, g),
         \A i \in 1..(n - 1) : g[i] = f[i]
  PROVE  g = Front(f)
<1> DEFINE S == {f[i] : i \in 1..n}
           h == Front(f)
<1>1. f \in Seq(S) /\ Len(f) = n /\ f # << >>
  BY ListIsSeq
<1> HIDE DEF S
<1>2. h \in Seq(S) /\ Len(h) = n - 1 /\ \A i \in 1..(n - 1) : h[i] = f[i]
  BY <1>1, FrontProperties
<1> HIDE DEF h
<1>3. IsList(n - 1, h)
  BY <1>2 DEF IsList
<1>4. n - 1 \in Nat /\ \A i \in 1..(n - 1) : g[i] = h[i]
  BY <1>2
<1>5. g = h
  BY <1>3, <1>4, SameList
<1> QED
  BY <1>5 DEF h

LEMMA ListAppend ==
  ASSUME NEW n \in Nat, NEW f, NEW g, NEW x, IsList(n, f), IsList(n + 1, g),
         g[n + 1] = x, \A i \in 1..n : g[i] = f[i]
  PROVE  g = Append(f, x)
<1> DEFINE S == {f[i] : i \in 1..n} \cup {x}
           h == Append(f, x)
<1>1. x \in S /\ f \in [1..n -> S]
  BY DEF IsList
<1> HIDE DEF S
<1>2. f \in Seq(S) /\ Len(f) = n
  BY <1>1
<1>3. h \in Seq(S) /\ Len(h) = n + 1 /\ h[n + 1] = x /\ \A i \in 1..n : h[i] = f[i]
  BY <1>1, <1>2, AppendProperties
<1> HIDE DEF h
<1>4. IsList(n + 1, h)
  BY <1>3 DEF IsList
<1>5. \A i \in 1..(n + 1) : i = n + 1 \/ i \in 1..n
  OBVIOUS
<1>6. n + 1 \in Nat /\ \A i \in 1..(n + 1) : g[i] = h[i]
  BY <1>3, <1>5
<1>7. g = h
  BY <1>4, <1>6, SameList
<1> QED
  BY <1>7 DEF h

LEMMA LastReplaced ==
  ASSUME NEW n \in Nat \ {0}, NEW f, NEW x, IsList(n, f)
  PROVE  Append(Front(f), x) = [f EXCEPT ![n] = x]
<1> DEFINE m == n - 1
           g == [i \in 1..m |-> f[i]]
           h == [f EXCEPT ![n] = x]
<1>1. /\ m \in Nat /\ m + 1 = n /\ IsList(m, g) /\ DOMAIN f = 1..n
      /\ \A i \in 1..m : g[i] = f[i] /\ i \in 1..n /\ i # n
  BY DEF IsList
<1>2. IsList(n, h) /\ h[n] = x /\ \A i \in 1..m : h[i] = f[i]
  <2>1. n \in 1..n
    OBVIOUS
  <2>2. h[n] = x
    BY <1>1, <2>1
  <2>3. \A i \in 1..m : h[i] = f[i]
    BY <1>1
  <2>4. IsList(n, h)
    BY <1>1 DEF IsList
  <2> QED
    BY <2>2, <2>3, <2>4
<1>3. g = Front(f)
  BY <1>1, ListFront
<1> HIDE DEF g, h, m
<1>4. IsList(m + 1, h) /\ h[m + 1] = x /\ \A i \in 1..m : h[i] = g[i]
  BY <1>1, <1>2
<1>5. h = Append(g, x)
  BY <1>1, <1>4, ListAppend
<1> QED
  BY <1>3, <1>5 DEF h

\* The tables and the uses, as lists of what the commands have.
LEMMA TablesAreLists ==
  ASSUME IInv
  PROVE  /\ frames \in Seq(Frame) /\ Len(frames) \in Nat /\ DOMAIN frames = 1..Len(frames)
         /\ IsList(Len(frames), Tables) /\ Len(Tables) = Len(frames)
         /\ IsList(Len(frames), Used) /\ Len(Used) = Len(frames)
         /\ \A i \in 1..Len(frames) : Tables[i] = TableOf(frames[i]) /\ Used[i] = UsedOf(frames[i])
         /\ frames # << >> => /\ Len(frames) > 0 /\ Tables # << >> /\ Used # << >>
                              /\ Last(Tables) = TableOf(Top) /\ Last(Used) = UsedOf(Top)
<1> DEFINE n == Len(frames)
<1>1. frames \in Seq(Frame) /\ n \in Nat /\ DOMAIN frames = 1..n
  BY DEF IInv, TypeOK
<1>2. /\ IsList(n, Tables) /\ IsList(n, Used)
      /\ \A i \in 1..n : Tables[i] = TableOf(frames[i]) /\ Used[i] = UsedOf(frames[i])
  BY <1>1 DEF Tables, Used, IsList
<1>3. frames # << >> => n > 0
  BY <1>1
<1>4. Top = frames[n]
  BY DEF Top, Last
<1> HIDE DEF n
<1>5. Len(Tables) = n /\ Len(Used) = n
  BY <1>1, <1>2, ListIsSeq
<1>6. n > 0 => /\ Tables # << >> /\ Used # << >>
               /\ Last(Tables) = Tables[n] /\ Last(Used) = Used[n]
  BY <1>1, <1>2, ListIsSeq
<1>7. n > 0 => n \in 1..n
  BY <1>1
<1> QED
  BY <1>1, <1>2, <1>3, <1>4, <1>5, <1>6, <1>7 DEF n

\* The same of the state after a step, given only how many commands there are.
LEMMA TablesAfter ==
  ASSUME NEW m \in Nat, DOMAIN frames' = 1..m
  PROVE  /\ IsList(m, Tables') /\ IsList(m, Used')
         /\ \A i \in 1..m : Tables'[i] = TableOf(frames'[i]) /\ Used'[i] = UsedOf(frames'[i])
  BY DEF Tables, Used, TableOf, UsedOf, IsList

\* Replacing the last element by itself.
LEMMA SameLast ==
  ASSUME NEW n \in Nat \ {0}, NEW f, NEW x, IsList(n, f), f[n] = x
  PROVE  [f EXCEPT ![n] = x] = f
<1>1. \A i \in 1..(n - 1) : f[i] = f[i]
  OBVIOUS
<1> QED
  BY <1>1, ListReplaced

\* A command is replaced: so are its table and what it uses.
LEMMA BecomesTable ==
  ASSUME IInv, frames # << >>, NEW c, Becomes(c)
  PROVE  /\ Tables' = [Tables EXCEPT ![Len(frames)] = TableOf(c)]
         /\ Used' = [Used EXCEPT ![Len(frames)] = UsedOf(c)]
         /\ AllInLine /\ InLine(c) => AllInLine'
<1> DEFINE n == Len(frames)
<1>1. frames \in Seq(Frame) /\ n \in Nat \ {0} /\ DOMAIN frames = 1..n
  BY TopIsFrame
<1>2. /\ DOMAIN frames' = 1..n /\ frames'[n] = c
      /\ \A i \in 1..(n - 1) : frames'[i] = frames[i]
  <2>1. /\ Front(frames) \in Seq(Frame) /\ Len(Front(frames)) = n - 1
        /\ \A i \in 1..(n - 1) : Front(frames)[i] = frames[i]
    BY <1>1, FrontProperties DEF n
  <2> DEFINE F == Frame \cup {c}
             front == Front(frames)
  <2>2. front \in Seq(F) /\ c \in F /\ n - 1 + 1 = n
    BY <1>1, <2>1, SeqMonotonic
  <2>3. frames' = Append(front, c)
    BY DEF Becomes
  <2>4. Len(front) = n - 1 /\ \A i \in 1..(n - 1) : front[i] = frames[i]
    BY <2>1
  <2> HIDE DEF F, front, n
  <2>5. /\ frames' \in Seq(F) /\ Len(frames') = n /\ frames'[n] = c
        /\ \A i \in 1..(n - 1) : frames'[i] = front[i]
    BY <2>2, <2>3, <2>4, AppendProperties
  <2> QED
    BY <2>4, <2>5
<1>3. /\ IsList(n, Tables) /\ IsList(n, Used)
      /\ \A i \in 1..n : Tables[i] = TableOf(frames[i]) /\ Used[i] = UsedOf(frames[i])
  BY TablesAreLists
<1>4. AllInLine /\ InLine(c) => AllInLine'
  BY <1>1, <1>2 DEF AllInLine, InLine
<1> HIDE DEF n
<1>5. /\ IsList(n, Tables') /\ IsList(n, Used')
      /\ \A i \in 1..n : Tables'[i] = TableOf(frames'[i]) /\ Used'[i] = UsedOf(frames'[i])
  BY <1>1, <1>2, TablesAfter
<1>6. n \in 1..n /\ \A i \in 1..(n - 1) : i \in 1..n
  BY <1>1
<1>7. /\ Tables'[n] = TableOf(c) /\ Used'[n] = UsedOf(c)
      /\ \A i \in 1..(n - 1) : Tables'[i] = Tables[i] /\ Used'[i] = Used[i]
  BY <1>2, <1>3, <1>5, <1>6
<1>8. Tables' = [Tables EXCEPT ![n] = TableOf(c)]
  BY <1>1, <1>3, <1>5, <1>7, ListReplaced
<1>9. Used' = [Used EXCEPT ![n] = UsedOf(c)]
  BY <1>1, <1>3, <1>5, <1>7, ListReplaced
<1> QED
  BY <1>4, <1>8, <1>9 DEF n

LEMMA LeaveTable ==
  ASSUME IInv, frames # << >>, Leave
  PROVE  /\ Tables' = Front(Tables) /\ Used' = Front(Used)
         /\ AllInLine => AllInLine'
<1> DEFINE n == Len(frames)
<1>1. frames \in Seq(Frame) /\ n \in Nat \ {0} /\ DOMAIN frames = 1..n
  BY TopIsFrame
<1>2. DOMAIN frames' = 1..(n - 1) /\ \A i \in 1..(n - 1) : frames'[i] = frames[i]
  BY <1>1, FrontProperties DEF Leave
<1>3. /\ IsList(n, Tables) /\ IsList(n, Used)
      /\ \A i \in 1..n : Tables[i] = TableOf(frames[i]) /\ Used[i] = UsedOf(frames[i])
  BY TablesAreLists
<1> HIDE DEF n
<1>4. n - 1 \in Nat /\ \A i \in 1..(n - 1) : i \in 1..n
  BY <1>1
<1>5. /\ IsList(n - 1, Tables') /\ IsList(n - 1, Used')
      /\ \A i \in 1..(n - 1) : Tables'[i] = TableOf(frames'[i]) /\ Used'[i] = UsedOf(frames'[i])
  BY <1>2, <1>4, TablesAfter
<1>6. \A i \in 1..(n - 1) : Tables'[i] = Tables[i] /\ Used'[i] = Used[i]
  BY <1>2, <1>3, <1>4, <1>5
<1>7. Tables' = Front(Tables)
  BY <1>1, <1>3, <1>5, <1>6, ListFront
<1>8. Used' = Front(Used)
  BY <1>1, <1>3, <1>5, <1>6, ListFront
<1>9. AllInLine => AllInLine'
  BY <1>1, <1>2, <1>4 DEF AllInLine, InLine
<1> QED
  BY <1>7, <1>8, <1>9

LEMMA AppendTable ==
  ASSUME IInv, NEW c, frames' = Append(frames, c)
  PROVE  /\ Tables' = Append(Tables, TableOf(c)) /\ Used' = Append(Used, UsedOf(c))
         /\ AllInLine /\ InLine(c) => AllInLine'
<1> DEFINE n == Len(frames)
<1>1. frames \in Seq(Frame) /\ n \in Nat /\ DOMAIN frames = 1..n
  BY DEF IInv, TypeOK
<1>2. /\ DOMAIN frames' = 1..(n + 1) /\ frames'[n + 1] = c
      /\ \A i \in 1..n : frames'[i] = frames[i]
  <2>1. frames \in Seq(Frame \cup {c})
    BY <1>1, SeqMonotonic
  <2> QED
    BY <1>1, <2>1, AppendProperties
<1>3. /\ IsList(n, Tables) /\ IsList(n, Used)
      /\ \A i \in 1..n : Tables[i] = TableOf(frames[i]) /\ Used[i] = UsedOf(frames[i])
  BY TablesAreLists
<1> HIDE DEF n
<1>4. /\ n + 1 \in Nat /\ n + 1 \in 1..(n + 1)
      /\ \A i \in 1..(n + 1) : i = n + 1 \/ i \in 1..n
      /\ \A i \in 1..n : i \in 1..(n + 1)
  BY <1>1
<1>5. /\ IsList(n + 1, Tables') /\ IsList(n + 1, Used')
      /\ \A i \in 1..(n + 1) :
           Tables'[i] = TableOf(frames'[i]) /\ Used'[i] = UsedOf(frames'[i])
  BY <1>2, <1>4, TablesAfter
<1>6. /\ Tables'[n + 1] = TableOf(c) /\ Used'[n + 1] = UsedOf(c)
      /\ \A i \in 1..n : Tables'[i] = Tables[i] /\ Used'[i] = Used[i]
  BY <1>2, <1>3, <1>4, <1>5
<1>7. Tables' = Append(Tables, TableOf(c))
  BY <1>1, <1>3, <1>5, <1>6, ListAppend
<1>8. Used' = Append(Used, UsedOf(c))
  BY <1>1, <1>3, <1>5, <1>6, ListAppend
<1>9. AllInLine /\ InLine(c) => AllInLine'
  BY <1>1, <1>2, <1>4 DEF AllInLine, InLine
<1> QED
  BY <1>7, <1>8, <1>9

-----------------------------------------------------------------------------
\* The streams that a new command is given, and the table they are.
Parent ==
  IF frames = << >>
  THEN [std |-> [fd \in Standard |-> "run"], fds |-> NoFds]
  ELSE [std |-> Top.std, fds |-> Top.fds]
ParentTable == IF frames = << >> THEN Table!AtStart ELSE TableOf(Top)

LEMMA GivenCases ==
  ASSUME NEW context
  PROVE  /\ context = "reader" =>
              Given(context).std = [Parent.std EXCEPT ![0] = "pipe"] /\ Given(context).fds = Parent.fds
         /\ context = "writer" =>
              /\ Given(context).std = [fd \in Standard |-> IF fd = 1 THEN "pipe" ELSE Parent.std[fd]]
              /\ Given(context).fds = Parent.fds
         /\ context = "substitution" =>
              /\ Given(context).std = [fd \in Standard |-> IF fd = 1 THEN "capture" ELSE Parent.std[fd]]
              /\ Given(context).fds = NoFds
         /\ context \notin {"reader", "writer", "substitution"} => Given(context) = Parent
<1>1. CASE context = "reader"
  <2>1. Given(context) = [Parent EXCEPT !.std[0] = "pipe"]
    BY <1>1 DEF Given, Parent
  <2> QED
    BY <1>1, <2>1 DEF Parent
<1>2. CASE context = "writer"
  <2>1. Given(context) =
          [Parent EXCEPT !.std = [fd \in Standard |-> IF fd = 1 THEN "pipe" ELSE @[fd]]]
    BY <1>2 DEF Given, Parent
  <2> QED
    BY <1>2, <2>1 DEF Parent
<1>3. CASE context = "substitution"
  BY <1>3 DEF Given, Parent
<1>4. CASE context \notin {"reader", "writer", "substitution"}
  BY <1>4 DEF Given, Parent
<1> QED
  BY <1>1, <1>2, <1>3, <1>4

LEMMA NothingIsNoStream == Nothing \notin Streams \cup {Null}
  BY FilesClear DEF Streams, Nothing, Null

\* What is around a command agrees with the table of what is around it.
LEMMA ParentAgrees ==
  ASSUME RInv
  PROVE  /\ Parent.std \in [Standard -> Streams \cup {Null}]
         /\ \A fd \in Standard :
              Parent.std[fd] = Table!OrNull(IF fd = 0 THEN ParentTable[fd].r ELSE ParentTable[fd].w)
         /\ \A fd \in Fds \ Standard : Parent.fds[fd] = ParentTable[fd]
<1> USE SameConstants
<1>0. Standard \subseteq Fds
  BY DEF Standard
<1>1. CASE frames = << >>
  <2>1. \A fd \in Fds :
          ParentTable[fd] = IF fd \notin Standard THEN Table!Closed
                            ELSE IF fd = 0 THEN [r |-> "run", w |-> Nothing]
                            ELSE [r |-> Nothing, w |-> "run"]
    BY <1>1 DEF ParentTable, Table!AtStart
  <2>2. Parent.std = [fd \in Standard |-> "run"] /\ Parent.fds = NoFds
    BY <1>1 DEF Parent
  <2>3. "run" \in Streams /\ "run" # Nothing
    BY DEF Streams, Nothing
  <2> QED
    BY <1>0, <2>1, <2>2, <2>3 DEF Table!OrNull, NoFds, Closed, Table!Closed
<1>2. CASE frames # << >>
  <2>1. Top \in Frame /\ InLine(Top)
    BY <1>2, TopIsFrame, TablesAreLists DEF RInv, AllInLine
  <2>2. Parent.std = Top.std /\ Parent.fds = Top.fds /\ ParentTable = TableOf(Top)
    BY <1>2 DEF Parent, ParentTable
  <2>3. Top.std \in [Standard -> Streams \cup {Null}] /\ Top.fds \in [Fds -> Descriptor]
    BY <2>1 DEF Frame
  <2>4. CASE Top.step = "words"
    <3>1. ParentTable = Copied(Top.std, Top.fds)
      BY <2>2, <2>4 DEF TableOf
    <3>2. \A fd \in Fds :
            ParentTable[fd] = IF fd \notin Standard THEN Top.fds[fd]
                              ELSE IF fd = 0 THEN Reads(Top.std[fd]) ELSE Writes(Top.std[fd])
      BY <3>1 DEF Copied
    <3>3. \A fd \in Standard : Table!OrNull(Top.std[fd]) = Top.std[fd]
      BY <2>3, NothingIsNoStream DEF Table!OrNull
    <3>4. \A fd \in Standard :
            (IF fd = 0 THEN ParentTable[fd].r ELSE ParentTable[fd].w) = Top.std[fd]
      <4> SUFFICES ASSUME NEW fd \in Standard
                   PROVE  (IF fd = 0 THEN ParentTable[fd].r ELSE ParentTable[fd].w) = Top.std[fd]
        OBVIOUS
      <4>1. ParentTable[fd] = IF fd = 0 THEN Reads(Top.std[fd]) ELSE Writes(Top.std[fd])
        BY <1>0, <3>2
      <4>2. CASE fd = 0
        BY <4>1, <4>2 DEF Reads
      <4>3. CASE fd # 0
        BY <4>1, <4>3 DEF Writes
      <4> QED
        BY <4>2, <4>3
    <3> QED
      BY <2>2, <2>3, <3>2, <3>3, <3>4
  <2>5. CASE Top.step # "words"
    <3>1. ParentTable = Top.fds /\ Top.std = Synced(Top.fds)
      BY <2>1, <2>2, <2>5 DEF TableOf, InLine
    <3>2. \A fd \in Standard :
            Top.std[fd] = LET s == IF fd = 0 THEN Top.fds[fd].r ELSE Top.fds[fd].w
                          IN  IF s = Nothing THEN Null ELSE s
      BY <3>1 DEF Synced
    <3> QED
      BY <2>2, <2>3, <3>1, <3>2 DEF Table!OrNull
  <2> QED
    BY <2>4, <2>5
<1> QED
  BY <1>1, <1>2

\* cloneStreams gives a command the table that DescriptorTable passes on.
LEMMA GivenIsPassedOn ==
  ASSUME RInv, NEW context
  PROVE  Copied(Given(context).std, Given(context).fds)
           = Table!PassedOn(Table!In(context, ParentTable))
<1> DEFINE s == Given(context)
           t == Table!In(context, ParentTable)
<1> USE SameConstants
<1>1. /\ \A fd \in Standard :
           Parent.std[fd] = Table!OrNull(IF fd = 0 THEN ParentTable[fd].r ELSE ParentTable[fd].w)
      /\ \A fd \in Fds \ Standard : Parent.fds[fd] = ParentTable[fd]
      /\ Parent.std \in [Standard -> Streams \cup {Null}]
  BY ParentAgrees
<1>2. Table!OrNull("pipe") = "pipe" /\ Table!OrNull("capture") = "capture"
  BY DEF Table!OrNull, Table!Nothing, Nothing
<1>3. 0 \in Standard /\ Standard \subseteq Fds /\ \A fd \in Standard : fd = 0 \/ fd = 1 \/ fd = 2
  BY FdsAssumption DEF Standard
<1>4. /\ \A fd \in Standard : s.std[fd] = Table!OrNull(IF fd = 0 THEN t[fd].r ELSE t[fd].w)
      /\ \A fd \in Fds \ Standard : s.fds[fd] = t[fd]
  <2>1. CASE context = "reader"
    <3>1. \A fd \in Fds : t[fd] = IF fd = 0 THEN [r |-> "pipe", w |-> Nothing] ELSE ParentTable[fd]
      BY <2>1 DEF Table!In
    <3>2. s.std = [Parent.std EXCEPT ![0] = "pipe"] /\ s.fds = Parent.fds
      BY <2>1, GivenCases
    <3> QED
      BY <1>1, <1>2, <1>3, <3>1, <3>2
  <2>2. CASE context = "writer"
    <3>1. \A fd \in Fds : t[fd] = IF fd = 1 THEN [r |-> Nothing, w |-> "pipe"] ELSE ParentTable[fd]
      BY <2>2 DEF Table!In
    <3>2. /\ s.std = [fd \in Standard |-> IF fd = 1 THEN "pipe" ELSE Parent.std[fd]]
          /\ s.fds = Parent.fds
      BY <2>2, GivenCases
    <3>3. 1 \in Fds => 1 \in Standard
      BY DEF Standard
    <3> QED
      BY <1>1, <1>2, <1>3, <3>1, <3>2, <3>3
  <2>3. CASE context = "substitution"
    <3>1. 1 \in Fds => 1 \in Standard
      BY DEF Standard
    <3>2. \A fd \in Fds : t[fd] = IF fd = 1 THEN [r |-> Nothing, w |-> "capture"]
                                  ELSE IF fd \notin Standard THEN Table!Closed ELSE ParentTable[fd]
      BY <2>3, <3>1 DEF Table!In
    <3>3. /\ s.std = [fd \in Standard |-> IF fd = 1 THEN "capture" ELSE Parent.std[fd]]
          /\ s.fds = NoFds
      BY <2>3, GivenCases
    <3>4. \A fd \in Fds : NoFds[fd] = Table!Closed
      BY DEF NoFds, Closed, Table!Closed
    <3> QED
      BY <1>1, <1>2, <1>3, <3>1, <3>2, <3>3, <3>4
  <2>4. CASE context \notin {"reader", "writer", "substitution"}
    <3>1. \A fd \in Fds : t[fd] = ParentTable[fd]
      BY <2>4 DEF Table!In
    <3>2. s = Parent
      BY <2>4, GivenCases
    <3> QED
      BY <1>1, <1>3, <3>1, <3>2
  <2> QED
    BY <2>1, <2>2, <2>3, <2>4
<1> HIDE DEF s, t
<1>5. Copied(s.std, s.fds) = [fd \in Fds |-> IF fd \notin Standard THEN s.fds[fd]
                               ELSE IF fd = 0 THEN Reads(s.std[fd]) ELSE Writes(s.std[fd])]
  BY DEF Copied
<1>6. Table!PassedOn(t) =
        [fd \in Fds |->
           IF fd \notin Standard THEN t[fd]
           ELSE IF fd = 0 THEN [r |-> Table!OrNull(t[fd].r), w |-> Nothing]
           ELSE [r |-> Nothing, w |-> Table!OrNull(t[fd].w)]]
  BY DEF Table!PassedOn
<1>7. Copied(s.std, s.fds) = Table!PassedOn(t)
  BY <1>4, <1>5, <1>6 DEF Reads, Writes
<1> QED
  BY <1>7 DEF s, t

-----------------------------------------------------------------------------
\* What a step of SimpleCommand is for DescriptorTable.
TableStep == (Table!Next \/ UNCHANGED Table!vars) /\ AllInLine'

LEMMA SameTable ==
  ASSUME RInv, frames # << >>, NEW c, Becomes(c),
         TableOf(c) = TableOf(Top), UsedOf(c) = UsedOf(Top), InLine(c)
  PROVE  TableStep
<1> DEFINE n == Len(frames)
<1>1. /\ Tables' = [Tables EXCEPT ![n] = TableOf(c)] /\ Used' = [Used EXCEPT ![n] = UsedOf(c)]
      /\ AllInLine'
  BY BecomesTable DEF RInv
<1>2. /\ n \in Nat \ {0} /\ IsList(n, Tables) /\ IsList(n, Used)
      /\ Tables[n] = TableOf(frames[n]) /\ Used[n] = UsedOf(frames[n]) /\ Top = frames[n]
  BY TablesAreLists, TopIsFrame DEF RInv
<1> HIDE DEF n
<1>3. Tables' = Tables
  BY <1>1, <1>2, SameLast
<1>4. Used' = Used
  BY <1>1, <1>2, SameLast
<1> QED
  BY <1>1, <1>3, <1>4, MappedStutter DEF TableStep

LEMMA EntrySet ==
  ASSUME RInv, frames # << >>, Top.step = "redirect", Top.did = NoRun,
         NEW fd \in Fds, NEW d, NEW c, Becomes(c), c.step = "redirect", c.did = Top.did,
         c.fds = [Top.fds EXCEPT ![fd] = d], c.std = Synced(c.fds),
         \/ d = Closed
         \/ \E stream \in Streams : d \in Table!Fresh(stream)
         \/ \E other \in Fds : Top.fds[other] # Closed /\ d = Top.fds[other]
  PROVE  TableStep
<1> DEFINE n == Len(frames)
<1>1. /\ Tables' = [Tables EXCEPT ![n] = TableOf(c)] /\ Used' = [Used EXCEPT ![n] = UsedOf(c)]
      /\ AllInLine'
  BY BecomesTable DEF RInv, InLine
<1>2. /\ n \in Nat \ {0} /\ IsList(n, Tables) /\ IsList(n, Used)
      /\ Tables[n] = TableOf(frames[n]) /\ Used[n] = UsedOf(frames[n]) /\ Top = frames[n]
      /\ Len(Tables) = n /\ Tables # << >>
      /\ Last(Tables) = TableOf(Top) /\ Last(Used) = UsedOf(Top)
  BY TablesAreLists, TopIsFrame DEF RInv
<1> HIDE DEF n
<1>3. TableOf(Top) = Top.fds /\ TableOf(c) = [Top.fds EXCEPT ![fd] = d]
  BY DEF TableOf
<1>4. UsedOf(Top) = << >> /\ UsedOf(c) = << >>
  BY DEF UsedOf
<1>5. Tables' = [Tables EXCEPT ![Len(Tables)][fd] = d]
  BY <1>1, <1>2, <1>3
<1>6. UNCHANGED Used
  <2>1. Used[n] = UsedOf(c)
    BY <1>2, <1>4
  <2>2. [Used EXCEPT ![n] = UsedOf(c)] = Used
    BY <1>2, <2>1, SameLast
  <2> QED
    BY <1>1, <2>2
<1>7. Tables # << >> /\ Last(Used) = << >> /\ Last(Tables) = Top.fds
  BY <1>2, <1>3, <1>4
<1>8. \/ d = Closed
      \/ \E stream \in Streams : d \in Table!Fresh(stream)
      \/ \E other \in Fds : Last(Tables)[other] # Closed /\ d = Last(Tables)[other]
  BY <1>7
<1>9. Table!Next
  BY <1>5, <1>6, <1>7, <1>8, MappedSet
<1> QED
  BY <1>1, <1>9 DEF TableStep

LEMMA TableUsed ==
  ASSUME RInv, frames # << >>, Top.step # "words",
         NEW c, Becomes(c), c.step # "words", c.std = Top.std, c.fds = Top.fds, c.did # NoRun
  PROVE  TableStep
<1> DEFINE n == Len(frames)
<1>1. Top \in Frame /\ InLine(Top)
  BY TopIsFrame, TablesAreLists DEF RInv, AllInLine
<1>2. /\ Tables' = [Tables EXCEPT ![n] = TableOf(c)] /\ Used' = [Used EXCEPT ![n] = UsedOf(c)]
      /\ AllInLine'
  BY <1>1, BecomesTable DEF RInv, InLine
<1>3. /\ n \in Nat \ {0} /\ IsList(n, Tables) /\ IsList(n, Used)
      /\ Tables[n] = TableOf(frames[n]) /\ Used[n] = UsedOf(frames[n]) /\ Top = frames[n]
      /\ Tables # << >> /\ Last(Tables) = TableOf(Top)
  BY TablesAreLists, TopIsFrame DEF RInv
<1> HIDE DEF n
<1>4. TableOf(Top) = Top.fds /\ TableOf(c) = Top.fds /\ UsedOf(c) = Top.std
  BY DEF TableOf, UsedOf
<1>5. UNCHANGED Tables
  <2>1. Tables[n] = TableOf(c)
    BY <1>3, <1>4
  <2>2. [Tables EXCEPT ![n] = TableOf(c)] = Tables
    BY <1>3, <2>1, SameLast
  <2> QED
    BY <1>2, <2>2
<1>6. Used' = Append(Front(Used), Top.std)
  <2>1. Append(Front(Used), Top.std) = [Used EXCEPT ![n] = Top.std]
    BY <1>3, LastReplaced
  <2> QED
    BY <1>2, <1>4, <2>1
<1>7. Top.std = Table!StandardUse(Top.fds)
  BY <1>1, SameConstants DEF InLine, Synced, Table!StandardUse, Table!OrNull
<1>8. Table!Next
  BY <1>3, <1>4, <1>5, <1>6, <1>7, MappedUse
<1> QED
  BY <1>2, <1>8 DEF TableStep

-----------------------------------------------------------------------------
\* The actions.
LEMMA BeginStep ==
  ASSUME RInv, NEW words \in Commands, NEW context \in Contexts, Begin(words, context)
  PROVE  TableStep
<1> DEFINE s == Given(context)
           c == [step |-> "words", words |-> words, approved |-> << >>, std |-> s.std,
                 fds |-> s.fds, files |-> {}, redirects |-> 0, did |-> NoRun]
<1>1. frames' = Append(frames, c)
  BY DEF Begin
<1>2. TableOf(c) = Copied(s.std, s.fds) /\ UsedOf(c) = << >> /\ InLine(c)
  BY DEF TableOf, UsedOf, InLine
<1> HIDE DEF c
<1>3. Tables' = Append(Tables, TableOf(c)) /\ Used' = Append(Used, UsedOf(c)) /\ AllInLine'
  BY <1>1, <1>2, AppendTable DEF RInv
<1>4. ParentTable = IF Tables = << >> THEN Table!AtStart ELSE Last(Tables)
  <2>1. CASE frames = << >>
    <3>1. Len(Tables) = 0 /\ Tables = [i \in 1..0 |-> Tables[i]]
      BY <2>1, TablesAreLists DEF RInv, IsList
    <3>2. Tables = << >>
      BY <3>1
    <3> QED
      BY <2>1, <3>2 DEF ParentTable
  <2>2. CASE frames # << >>
    BY <2>2, TablesAreLists DEF RInv, ParentTable
  <2> QED
    BY <2>1, <2>2
<1>5. TableOf(c) = Table!PassedOn(Table!In(context, ParentTable))
  BY <1>2, GivenIsPassedOn
<1>6. Table!Next
  BY <1>2, <1>3, <1>4, <1>5, MappedEnter
<1> QED
  BY <1>3, <1>6 DEF TableStep

LEMMA LeaveStep ==
  ASSUME RInv, Refuse \/ RedirectFails \/ CallFails \/ RefuseAgain \/ HostFails \/ End
  PROVE  TableStep
<1>1. frames # << >> /\ Leave
  BY DEF Refuse, RedirectFails, CallFails, RefuseAgain, NotBuiltin, HostFails, HostIsNext, End, At
<1>2. Tables' = Front(Tables) /\ Used' = Front(Used) /\ AllInLine' /\ Tables # << >>
  BY <1>1, LeaveTable, TablesAreLists DEF RInv
<1> QED
  BY <1>2, MappedLeave DEF TableStep

LEMMA DefineStep ==
  ASSUME RInv, NEW name \in FunctionNames, Define(name)
  PROVE  TableStep
<1>1. UNCHANGED frames
  BY DEF Define
<1>2. UNCHANGED <<Tables, Used>> /\ AllInLine'
  BY <1>1 DEF RInv, AllInLine, InLine, Tables, Used, TableOf, UsedOf
<1> QED
  BY <1>2, MappedStutter DEF TableStep

\* From here on a command uses the table that its streams are copied into.
LEMMA AuthorizeStep ==
  ASSUME RInv, Authorize
  PROVE  TableStep
<1> DEFINE c == [Top EXCEPT !.step = "redirect", !.approved = Top.words,
                            !.fds = Copied(Top.std, Top.fds)]
<1>1. At("words") /\ Becomes(c)
  BY DEF Authorize
<1>2. frames # << >> /\ Top.step = "words" /\ Top \in Frame
  BY <1>1, AtTop DEF RInv
<1>3. /\ c.step = "redirect" /\ c.std = Top.std /\ c.did = Top.did
      /\ c.fds = Copied(Top.std, Top.fds)
  BY <1>2 DEF Frame
<1> HIDE DEF c
<1>4. TableOf(c) = TableOf(Top) /\ UsedOf(c) = UsedOf(Top)
  BY <1>2, <1>3 DEF TableOf, UsedOf
<1>5. Top.std = Synced(Copied(Top.std, Top.fds))
  <2>1. Top.std \in [Standard -> Streams \cup {Null}] /\ Standard \subseteq Fds
    BY <1>2 DEF Frame, Standard
  <2>2. \A fd \in Standard :
          /\ fd = 0 => Copied(Top.std, Top.fds)[fd].r = Top.std[fd]
          /\ fd # 0 => Copied(Top.std, Top.fds)[fd].w = Top.std[fd]
    BY <2>1 DEF Copied, Reads, Writes
  <2>3. \A fd \in Standard : Top.std[fd] # Nothing
    BY <2>1, NothingIsNoStream
  <2>4. \A fd \in Standard : Synced(Copied(Top.std, Top.fds))[fd] = Top.std[fd]
    BY <2>2, <2>3 DEF Synced
  <2>5. Synced(Copied(Top.std, Top.fds)) =
          [fd \in Standard |-> Synced(Copied(Top.std, Top.fds))[fd]]
    BY DEF Synced
  <2> QED
    BY <2>1, <2>4, <2>5
<1>6. InLine(c)
  BY <1>3, <1>5 DEF InLine
<1> QED
  BY <1>1, <1>2, <1>4, <1>6, SameTable

\* Only what the command is about to do changes.
LEMMA OnlyStepStep ==
  ASSUME RInv, frames # << >>, Top.step # "words", NEW c, Becomes(c), c.step # "words",
         c.std = Top.std, c.fds = Top.fds, c.did = Top.did
  PROVE  TableStep
<1>1. InLine(Top)
  BY TablesAreLists, TopIsFrame DEF RInv, AllInLine
<1>2. TableOf(c) = TableOf(Top) /\ UsedOf(c) = UsedOf(Top) /\ InLine(c)
  BY <1>1 DEF TableOf, UsedOf, InLine
<1> QED
  BY <1>2, SameTable

LEMMA GoesOnStep ==
  ASSUME RInv, Redirected \/ RunCommand \/ CommandAnswers \/ AuthorizeAgain \/ AskHandlers
  PROVE  TableStep
<1>1. CASE Redirected
  <2> DEFINE c == [Top EXCEPT !.step = IF Top.words = << >> THEN "end" ELSE "dispatch"]
  <2>1. At("redirect") /\ Becomes(c)
    BY <1>1 DEF Redirected
  <2>2. frames # << >> /\ Top.step = "redirect" /\ Top \in Frame
    BY <2>1, AtTop DEF RInv
  <2>3. c.step # "words" /\ c.std = Top.std /\ c.fds = Top.fds /\ c.did = Top.did
    BY <2>2 DEF Frame
  <2> QED
    BY <2>1, <2>2, <2>3, OnlyStepStep
<1>2. CASE RunCommand
  <2> DEFINE c == [Top EXCEPT !.words = Tail(@), !.step = "command"]
  <2>1. (At("dispatch") \/ At("command")) /\ Becomes(c)
    BY <1>2 DEF RunCommand, BuiltinIsNext
  <2>2. frames # << >> /\ Top.step # "words" /\ Top \in Frame
    BY <2>1, AtTop DEF RInv
  <2>3. c.step # "words" /\ c.std = Top.std /\ c.fds = Top.fds /\ c.did = Top.did
    BY <2>2 DEF Frame
  <2> QED
    BY <2>1, <2>2, <2>3, OnlyStepStep
<1>3. CASE CommandAnswers
  <2> DEFINE c == [Top EXCEPT !.step = "end"]
  <2>1. At("command") /\ Becomes(c)
    BY <1>3 DEF CommandAnswers
  <2>2. frames # << >> /\ Top.step = "command" /\ Top \in Frame
    BY <2>1, AtTop DEF RInv
  <2>3. c.step # "words" /\ c.std = Top.std /\ c.fds = Top.fds /\ c.did = Top.did
    BY <2>2 DEF Frame
  <2> QED
    BY <2>1, <2>2, <2>3, OnlyStepStep
<1>4. CASE AuthorizeAgain
  <2> DEFINE c == [Top EXCEPT !.approved = Top.words, !.step = "handlers"]
  <2>1. At("command") /\ Becomes(c)
    BY <1>4 DEF AuthorizeAgain, NotBuiltin
  <2>2. frames # << >> /\ Top.step = "command" /\ Top \in Frame
    BY <2>1, AtTop DEF RInv
  <2>3. c.step # "words" /\ c.std = Top.std /\ c.fds = Top.fds /\ c.did = Top.did
    BY <2>2 DEF Frame
  <2> QED
    BY <2>1, <2>2, <2>3, OnlyStepStep
<1>5. CASE AskHandlers
  <2> DEFINE c == [Top EXCEPT !.step = "handlers"]
  <2>1. At("dispatch") /\ Becomes(c)
    BY <1>5 DEF AskHandlers
  <2>2. frames # << >> /\ Top.step = "dispatch" /\ Top \in Frame
    BY <2>1, AtTop DEF RInv
  <2>3. c.step # "words" /\ c.std = Top.std /\ c.fds = Top.fds /\ c.did = Top.did
    BY <2>2 DEF Frame
  <2> QED
    BY <2>1, <2>2, <2>3, OnlyStepStep
<1> QED
  BY <1>1, <1>2, <1>3, <1>4, <1>5

\* A redirection, of whichever kind, sets one entry of the table.
LEMMA RedirectStep ==
  ASSUME RInv, NEW fd \in Fds,
         \/ OpenRedirect(fd) \/ InlineRedirect(fd) \/ CloseRedirect(fd)
         \/ \E other \in Fds : DuplicateRedirect(fd, other)
  PROVE  TableStep
<1>1. At("redirect")
  BY DEF OpenRedirect, InlineRedirect, CloseRedirect, DuplicateRedirect, Set, RedirectIsNext
<1>2. /\ frames # << >> /\ Top.step = "redirect" /\ Top \in Frame /\ Top.did = NoRun
  BY <1>1, AtTop DEF RInv, Sound, Seen
<1> DEFINE fds(d) == [Top.fds EXCEPT ![fd] = d]
           c(d) == [Top EXCEPT !.fds = fds(d), !.std = Synced(fds(d)), !.redirects = @ + 1]
<1>3. ASSUME NEW d, Becomes(c(d)),
             \/ d = Closed
             \/ \E stream \in Streams : d \in Table!Fresh(stream)
             \/ \E other \in Fds : Top.fds[other] # Closed /\ d = Top.fds[other]
      PROVE  TableStep
  <2>1. /\ c(d).step = "redirect" /\ c(d).did = Top.did /\ c(d).fds = fds(d)
        /\ c(d).std = Synced(c(d).fds)
    BY <1>2 DEF Frame
  <2> QED
    BY <1>2, <1>3, <2>1, EntrySet
<1>4. CASE OpenRedirect(fd)
  <2> DEFINE f == CHOOSE f \in Files \ open : TRUE
  <2>1. PICK d \in {Reads(f), Writes(f), [r |-> f, w |-> f]} :
          Becomes([Top EXCEPT !.fds = fds(d), !.std = Synced(fds(d)), !.redirects = @ + 1,
                              !.files = @ \cup {f}])
    BY <1>4 DEF OpenRedirect
  <2> DEFINE e == [Top EXCEPT !.fds = fds(d), !.std = Synced(fds(d)), !.redirects = @ + 1,
                              !.files = @ \cup {f}]
  <2>2. e.step = "redirect" /\ e.did = Top.did /\ e.fds = fds(d) /\ e.std = Synced(e.fds)
    BY <1>2 DEF Frame
  <2>3. f \in Streams
    <3>1. open \subseteq Files /\ Files # open
      BY <1>4 DEF RInv, IInv, TypeOK, OpenRedirect
    <3>2. Files \ open # {}
      BY <3>1
    <3>3. f \in Files
      BY <3>2
    <3> QED
      BY <3>3 DEF Streams
  <2>4. Becomes(e)
    BY <2>1
  <2> HIDE DEF f
  <2>5. d \in Table!Fresh(f)
    BY SameConstants DEF Table!Fresh, Reads, Writes
  <2>6. \E stream \in Streams : d \in Table!Fresh(stream)
    BY <2>3, <2>5
  <2> HIDE DEF e
  <2> QED
    BY <1>2, <2>2, <2>4, <2>6, EntrySet
<1>5. CASE InlineRedirect(fd)
  <2>1. "text" \in Streams /\ Reads("text") \in Table!Fresh("text")
    BY SameConstants DEF Streams, Reads, Table!Fresh
  <2>2. Becomes(c(Reads("text")))
    BY <1>5 DEF InlineRedirect, Set
  <2> QED
    BY <1>3, <2>1, <2>2
<1>6. CASE CloseRedirect(fd)
  <2>1. Becomes(c(Closed))
    BY <1>6 DEF CloseRedirect, Set
  <2> QED
    BY <1>3, <2>1
<1>7. CASE \E other \in Fds : DuplicateRedirect(fd, other)
  <2>1. PICK other \in Fds : DuplicateRedirect(fd, other)
    BY <1>7
  <2>2. Top.fds[other] # Closed /\ Becomes(c(Top.fds[other]))
    BY <2>1 DEF DuplicateRedirect, Set
  <2> HIDE DEF c
  <2> QED
    BY <1>3, <2>2
<1> QED
  BY <1>4, <1>5, <1>6, <1>7

\* Whatever a command runs uses the table its redirections have made.
LEMMA RunStep ==
  ASSUME RInv,
         \/ CallFunction \/ RunBuiltin \/ HandlerRuns \/ RunUtility \/ RunHost
         \/ \E translation \in Translations : RunTranslated(translation[2])
  PROVE  TableStep
<1>1. CASE \/ CallFunction \/ RunBuiltin \/ HandlerRuns \/ RunUtility \/ RunHost
  <2>1. /\ At("dispatch") \/ At("command") \/ At("handlers")
        /\ \E kind \in {"function", "builtin", "handler", "utility", "host"},
              next \in {"body", "end"} : Runs(kind, Top.words, next)
    BY <1>1 DEF CallFunction, RunBuiltin, BuiltinIsNext, HandlerRuns, RunUtility, RunHost, HostIsNext
  <2>2. PICK kind \in {"function", "builtin", "handler", "utility", "host"},
             next \in {"body", "end"} : Runs(kind, Top.words, next)
    BY <2>1
  <2> DEFINE c == [Top EXCEPT !.did = [kind |-> kind, words |-> Top.words], !.step = next]
  <2>3. Becomes(c)
    BY <2>2 DEF Runs
  <2>4. frames # << >> /\ Top.step # "words" /\ Top \in Frame
    BY <2>1, AtTop DEF RInv
  <2>5. c.did = [kind |-> kind, words |-> Top.words] /\ c.step = next
        /\ c.std = Top.std /\ c.fds = Top.fds
    BY <2>4 DEF Frame
  <2>6. c.did.kind # "none" /\ c.step # "words"
    BY <2>5
  <2>7. c.did # NoRun
    BY <2>6 DEF NoRun
  <2> QED
    BY <2>3, <2>4, <2>5, <2>6, <2>7, TableUsed
<1>2. CASE \E translation \in Translations : RunTranslated(translation[2])
  <2>1. PICK translation \in Translations : RunTranslated(translation[2])
    BY <1>2
  <2> DEFINE words == translation[2]
             c == [Top EXCEPT !.words = words, !.approved = words, !.step = "end",
                              !.did = [kind |-> "host", words |-> words]]
  <2>2. At("handlers") /\ Becomes(c)
    BY <2>1 DEF RunTranslated, HostIsNext
  <2>3. frames # << >> /\ Top.step = "handlers" /\ Top \in Frame
    BY <2>2, AtTop DEF RInv
  <2>4. /\ c.did.kind = "host" /\ c.step = "end" /\ c.std = Top.std /\ c.fds = Top.fds
    BY <2>3 DEF Frame
  <2>5. c.did # NoRun
    BY <2>4 DEF NoRun
  <2> QED
    BY <2>2, <2>3, <2>4, <2>5, TableUsed
<1> QED
  BY <1>1, <1>2

-----------------------------------------------------------------------------
LEMMA InitMapped == Init => RInv /\ Table!Init
<1> SUFFICES ASSUME Init PROVE RInv /\ Table!Init
  OBVIOUS
<1>1. frames = << >> /\ DOMAIN frames = {} /\ IInv
  BY InitInv DEF Init
<1>2. RInv
  BY <1>1 DEF RInv, AllInLine
<1>3. Tables = << >> /\ Used = << >>
  BY <1>1 DEF Tables, Used
<1> QED
  BY <1>2, <1>3 DEF Table!Init, Tables, Used, TableOf, UsedOf

LEMMA NextMapped == RInv /\ [Next]_vars => RInv' /\ [Table!Next]_Table!vars
<1> SUFFICES ASSUME RInv, [Next]_vars PROVE RInv' /\ [Table!Next]_Table!vars
  OBVIOUS
<1>1. IInv'
  BY NextInv DEF RInv
<1>2. TableStep
  <2>1. CASE \E words \in Commands, context \in Contexts : Begin(words, context)
    BY <2>1, BeginStep
  <2>2. CASE \E name \in FunctionNames : Define(name)
    BY <2>2, DefineStep
  <2>3. CASE Authorize
    BY <2>3, AuthorizeStep
  <2>4. CASE \E fd \in Fds : \/ OpenRedirect(fd) \/ InlineRedirect(fd) \/ CloseRedirect(fd)
                             \/ \E other \in Fds : DuplicateRedirect(fd, other)
    BY <2>4, RedirectStep
  <2>5. CASE Refuse \/ RedirectFails \/ CallFails \/ RefuseAgain \/ HostFails \/ End
    BY <2>5, LeaveStep
  <2>6. CASE Redirected \/ RunCommand \/ CommandAnswers \/ AuthorizeAgain \/ AskHandlers
    BY <2>6, GoesOnStep
  <2>7. CASE \/ CallFunction \/ RunBuiltin \/ HandlerRuns \/ RunUtility \/ RunHost
             \/ \E translation \in Translations : RunTranslated(translation[2])
    BY <2>7, RunStep
  <2>8. CASE UNCHANGED vars
    <3>1. UNCHANGED <<Tables, Used>> /\ AllInLine'
      BY <2>8 DEF vars, RInv, AllInLine, InLine, Tables, Used, TableOf, UsedOf
    <3> QED
      BY <3>1, MappedStutter DEF TableStep
  <2> QED
    BY <2>1, <2>2, <2>3, <2>4, <2>5, <2>6, <2>7, <2>8 DEF Next
<1> QED
  BY <1>1, <1>2 DEF RInv, TableStep

\* Whatever the commands, the nesting, the files and the failures in between:
\* the fields of streams and the map of descriptors behave as one table, which
\* every command takes over, changes in the order of its redirections, and uses.
THEOREM OneTable == Spec => RefinesDescriptorTable
  BY InitMapped, NextMapped, PTL DEF Spec, RefinesDescriptorTable, Table!Spec

=============================================================================
