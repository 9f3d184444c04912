-------------------------------- MODULE Badshell --------------------------------
(***************************************************************************)
(* Badshell: a shell that passes the arguments of a command, and gets its  *)
(* output back, through System V shared memory.  Every argument has a      *)
(* segment of its own, one more holds their ids, and one takes the output. *)
(*                                                                         *)
(* The user types words, each ended by a space or a newline; a word that   *)
(* is cut at its maximal length counts as ended by a newline.              *)
(***************************************************************************)
EXTENDS Integers, Sequences, Functions, SharedMemory

CONSTANTS
  Argument,     \* the words typed as arguments
  ValueOf,      \* atoi of an argument
  MaxArguments, \* MAX_COMMAND_COUNT
  MaxWords      \* bound on the words the user types

ASSUME ValueAssumption == ValueOf \in [Argument -> Int]
ASSUME ProcAssumption == Proc = {"shell", "child"}
ASSUME BoundsAssumption == MaxArguments \in Nat \ {0} /\ MaxWords \in Nat

VARIABLES
  shm,          \* the existing segments
  content,      \* id -> what has been stored in a segment, ever
  pc,           \* how far main has come
  child,        \* "none", "forked", "running", "ran" or "failed"
  command,      \* the keyword of the command in progress
  shm_arg_ids,  \* the segments of its arguments
  shm_argv_id, shm_out_id,
  printed,      \* what puts(shm_out) has printed last
  typed,        \* the arguments typed for the command in progress
  words,        \* how many words have been typed
  rootIsKey     \* the uninitialized is_key of the root of the command trie

segments == <<shm, content>>
args == <<shm_arg_ids, shm_argv_id, shm_out_id>>
vars == <<segments, pc, child, command, args, printed, typed, words, rootIsKey>>

Keyword == {"sum", "printlines"}
NoId == -1
Empty == "empty"        \* an output segment that nobody has written to

NewId == Cardinality(DOMAIN content) + 1

\* What is stored after a value has been written into a segment.
Stored(contents, id, value) ==
  [i \in DOMAIN contents \cup {id} |-> IF i = id THEN value ELSE contents[i]]

\* sum.c and print.c: what the program writes for a sequence of arguments.
Sum[s \in Seq(Argument)] == IF s = <<>> THEN 0 ELSE ValueOf[Head(s)] + Sum[Tail(s)]
Output(keyword, s) == IF keyword = "sum" THEN Sum[s] ELSE s

-----------------------------------------------------------------------------

Init ==
  /\ shm = <<>> /\ content = <<>>
  /\ pc = "prompt"
  /\ child = "none"
  /\ command = "none"
  /\ shm_arg_ids = <<>> /\ shm_argv_id = NoId /\ shm_out_id = NoId
  /\ printed = Empty
  /\ typed = <<>>
  /\ words = 0
  /\ rootIsKey \in BOOLEAN

\* has_key: the empty word reaches the root of the trie, and then any memory
\* the root's command points to is taken for the name of a program.
Found(word) == word \in Keyword \/ (word = "" /\ rootIsKey)

Typing == words < MaxWords /\ words' = words + 1

\* The first word names the command; its newline does not end the line.
ReadCommand(word) ==
  /\ pc = "prompt"
  /\ Typing
  /\ Found(word)
  /\ command' = word
  /\ pc' = "arguments"
  /\ shm_arg_ids' = <<>>
  /\ typed' = <<>>
  /\ UNCHANGED <<segments, child, shm_argv_id, shm_out_id, printed, rootIsKey>>

NotFound(word) ==
  /\ pc = "prompt"
  /\ Typing
  /\ ~ Found(word) /\ word # "exit"
  /\ UNCHANGED <<segments, pc, child, command, args, printed, typed, rootIsKey>>

Exit ==
  /\ pc = "prompt"
  /\ shm' = Ended(shm, "shell")
  /\ pc' = "over"
  /\ UNCHANGED <<content, child, command, args, printed, typed, words, rootIsKey>>

\* Mutant of ReadArgument: all arguments share one buffer.
ReadArgumentInPlace(word, end) ==
  LET id == NewId IN
  /\ pc = "arguments"
  /\ Typing
  /\ shm' = Created(shm, id)
  /\ content' = [i \in DOMAIN content \cup {id} |->
                   IF i \in Range(shm_arg_ids) \cup {id} THEN word ELSE content[i]]
  /\ shm_arg_ids' = Append(shm_arg_ids, id)
  /\ typed' = Append(typed, word)
  /\ pc' = IF end = "newline" \/ Len(shm_arg_ids') >= MaxArguments THEN "prepare" ELSE pc
  /\ UNCHANGED <<child, command, shm_argv_id, shm_out_id, printed, rootIsKey>>

\* An argument is copied into a segment of its own.
ReadArgument(word, end) ==
  LET id == NewId IN
  /\ pc = "arguments"
  /\ Typing
  /\ shm' = Created(shm, id)
  /\ content' = Stored(content, id, word)
  /\ shm_arg_ids' = Append(shm_arg_ids, id)
  /\ typed' = Append(typed, word)
  /\ pc' = IF end = "newline" \/ Len(shm_arg_ids') >= MaxArguments THEN "prepare" ELSE pc
  /\ UNCHANGED <<child, command, shm_argv_id, shm_out_id, printed, rootIsKey>>

\* An empty word ends the arguments.
ReadNoArgument ==
  /\ pc = "arguments"
  /\ Typing
  /\ pc' = "prepare"
  /\ UNCHANGED <<segments, child, command, args, printed, typed, rootIsKey>>

\* The segment of the ids, which stays attached, and the one for the output.
Prepare ==
  LET argv == NewId
      out == IF shm_arg_ids = <<>> THEN NewId ELSE NewId + 1
  IN
  /\ pc = "prepare"
  /\ IF shm_arg_ids = <<>>
       THEN /\ shm_argv_id' = NoId
            /\ shm' = Created(shm, out)
            /\ content' = Stored(content, out, Empty)
       ELSE /\ shm_argv_id' = argv
            /\ shm' = Created(Attached(Created(shm, argv), argv, "shell"), out)
            /\ content' = Stored(Stored(content, out, Empty), argv, shm_arg_ids)
  /\ shm_out_id' = out
  /\ pc' = "fork"
  /\ UNCHANGED <<child, command, shm_arg_ids, printed, typed, words, rootIsKey>>

\* The child inherits every attachment of the shell.  A failed fork leaves
\* waitpid without a child to wait for.
Fork ==
  /\ pc = "fork"
  /\ pc' = "wait"
  /\ \/ /\ child' = "forked"
        /\ shm' = [id \in DOMAIN shm |-> [shm[id] EXCEPT !.att["child"] = @ + shm[id].att["shell"]]]
     \/ /\ child' = "failed"
        /\ UNCHANGED shm
  /\ UNCHANGED <<content, command, args, printed, typed, words, rootIsKey>>

\* execlp drops the attachments; where it fails the child exits.
Exec ==
  /\ child = "forked"
  /\ shm' = Ended(shm, "child")
  /\ child' \in {"failed"} \cup (IF command \in Keyword THEN {"running"} ELSE {})
  /\ UNCHANGED <<content, pc, command, args, printed, typed, words, rootIsKey>>

\* sum.out or print.out attaches its segments, reads, writes, and exits.
Run ==
  LET ids == IF shm_argv_id = NoId THEN <<>> ELSE content[shm_argv_id]
      arguments == [i \in 1 .. Len(ids) |-> content[ids[i]]]
  IN
  /\ child = "running"
  /\ content' = [content EXCEPT ![shm_out_id] = Output(command, arguments)]
  /\ child' = "ran"
  /\ UNCHANGED <<shm, pc, command, args, printed, typed, words, rootIsKey>>

\* Mutant of Wait: the shell does not wait for the child.
WaitForNobody ==
  /\ pc = "wait"
  /\ printed' = content[shm_out_id]
  /\ pc' = "cleanup"
  /\ UNCHANGED <<segments, child, command, args, typed, words, rootIsKey>>

Wait ==
  /\ pc = "wait"
  /\ child \in {"ran", "failed"}
  /\ printed' = content[shm_out_id]
  /\ pc' = "cleanup"
  /\ UNCHANGED <<segments, child, command, args, typed, words, rootIsKey>>

\* Mutant of Cleanup: the loop over the arguments starts at 1.
CleanupFrom1 ==
  /\ pc = "cleanup"
  /\ shm' = Removed(shm, {shm_arg_ids[i] : i \in 2 .. Len(shm_arg_ids)}
                           \cup {shm_argv_id, shm_out_id})
  /\ pc' = "prompt"
  /\ UNCHANGED <<content, child, command, args, printed, typed, words, rootIsKey>>

\* Every segment is marked for destruction; shm_argv is not detached.
Cleanup ==
  /\ pc = "cleanup"
  /\ shm' = Removed(shm, Range(shm_arg_ids) \cup {shm_argv_id, shm_out_id})
  /\ pc' = "prompt"
  /\ UNCHANGED <<content, child, command, args, printed, typed, words, rootIsKey>>

Next ==
  \/ \E word \in Keyword \cup Argument \cup {""} : ReadCommand(word) \/ NotFound(word)
  \/ Exit
  \/ \E word \in Argument, end \in {"space", "newline"} : ReadArgument(word, end)
  \/ ReadNoArgument \/ Prepare \/ Fork \/ Exec \/ Run \/ Wait \/ Cleanup

Spec == Init /\ [][Next]_vars

-----------------------------------------------------------------------------

\* What the shell prints is the output of the command it has read, for the
\* words typed after it and in their order, through the segments of
\* both processes.  Only a child that could not be started leaves it empty.
PrintsOutput ==
  pc = "cleanup" =>
    printed = IF child = "ran" THEN Output(command, typed) ELSE Empty

\* Every segment that a process still has to use exists: none is destroyed
\* before sum.c, print.c and the shell have read it (main.c:136-151).
LiveWhileUsed ==
  pc \in {"fork", "wait", "cleanup"} \/ child \in {"forked", "running"} =>
    Range(shm_arg_ids) \cup {shm_out_id} \cup ({shm_argv_id} \ {NoId}) \subseteq DOMAIN shm

\* The shell keeps nothing but the segments of the ids of earlier commands,
\* each attached once and already marked: when it exits, they go too.
OnlyArgvKept ==
  /\ pc = "prompt" =>
       \A id \in DOMAIN shm :
         shm[id] = [dest |-> TRUE, att |-> [p \in Proc |-> IF p = "shell" THEN 1 ELSE 0]]
  /\ pc = "over" => shm = <<>>

\* main.c:143: the shared memory segments are destroyed after every command.
Destroyed == pc = "prompt" => shm = <<>>
================================================================================
