# A verification development for C-things

TLA+ models of the programs of this repository, model-checked with TLC, and
proofs about them checked by TLAPS. The repository is a collection of small,
independent C programs; there is no common core, so every program with state
worth modelling has a module of its own, translated from its source file.

## 1. The system

| Component | State it keeps | Operations | What is hard about it |
|---|---|---|---|
| `Sorting/quick.c` | an array in shared memory, a tree of forked processes | `quicksort_fork`, `quicksort_vanilla`, `main` | no lock at all; `wait(NULL)` reaps *any* child; a failing `fork` |
| `Threads/threadsort.c` | a global array, heap structs handed to threads | `quicksort_threaded`, `quicksort_global`, `quicksort_vanilla` | data races, lifetime of the structs, joins |
| `Memorizer/memtwo.c` | a doubly linked list with a focus, a stack of outcomes | `test_rand_insert`, `test_submit`, `test_revert`, `test_destroy` | pointer surgery that a revert must undo exactly, in any sequence |
| `Memorizer/memorizer.c` | buffers filled in three passes over a file, an order array | the passes, the shuffle, the quiz | two parsers of one format that must agree; buffer sizes |
| `Datastructs/SharedLinkedLists` | a list of shared memory segments | `push`, `pop`, `get_at_index`, `destroy` | two processes; segments that leak or go away too early |
| `Badshell` | segments for arguments, their ids and the output | one command: read, fork, exec, wait, print, destroy | failing fork and exec; segment lifetime across processes; an uninitialised flag |
| `Datastructs/BST` | a binary tree | insert, contains, minimum, remove | removal with two children |
| `Datastructs/Trie`, `Autocomplete`, `KanjiConverter/convert.c` | tries | add, look up, complete | the node with the highest value; uninitialised flags |
| `Datastructs/Strings`, `set.c` | growing buffers, bytes of bits | slices, unions | late growth, a struct passed by value, a field that is never set |
| `Verticalizer` | one page of columns | fill, print | the page boundary |
| `Threads/monte.c`, `integ.c` | a sum under a mutex | one addition per thread | an uninitialised local (`integ.c:46`) |
| `Threads/GradientBoosting` | trees of samples, sums of OpenMP threads | `cost`, `gen_children`, `predict` | a data race in `cost` (`dt.c:138`); the sample a node is split at |
| `KanjiConverter/*.py, *.sh` | — | scraping | pure I/O |

The programs interact with each other only in Badshell, where `main.c` and the
programs it executes (`sum.c`, `print.c`) share memory segments, and through
inclusion: `auto.c` uses `trie.c`, `convert.c` uses `kanjitrie.c`.

The hazards of this code, each at the line where it bites, are listed in
`PROJECT.json`; the properties below are aimed at them.

## 2. The modules

| Module | Models | How it corresponds to the code |
|---|---|---|
| `SplitSort` | what both parallel sorts promise | no processes: a set `work` of segments, exchanges inside a segment, splits at a separating element |
| `ForkSort` | `quick.c` | one activation record per call, one action per step of `quicksort_fork` between system calls, one iteration of the partition loop per step |
| `ThreadSort` | `threadsort.c` | the same with threads, and the `struct thread_data` of every thread as a heap object |
| `Quiz` | what `memtwo.c` promises | a row of terms and a history of states |
| `Memtwo` | `memtwo.c` | `next`, `prev`, `head`, `tail`, `focus`, `len`, the stack and its `len`; one iteration of `test_revert` and of `test_destroy` per step |
| `Memorizer` | `memorizer.c` | one step per pass, folded over the file character by character; one step per exchange of the shuffle and per answer |
| `SharedMemory` | System V segments, as the code uses them (external) | ids, attachments per process, the mark of `IPC_RMID` |
| `Stack` | what a shared list promises | a stack that can be indexed |
| `SharedList` | `shared_list.c` | the segments, their content, the two processes of `main` |
| `Badshell` | `main.c`, `sum.c`, `print.c`, the lookups of `command_trie.c` | one action per block of the command loop, one for `execlp`, one for the run of a program |
| `BST` | `bst.c` | nodes as a heap; one action per public operation |
| `Trie` | the tree of `trie.c`, which `kanjitrie.c` shares | nodes in the order of allocation, with parent, children and the size of their array; `Grown` is the loop of `add_word`, `Located` the one of all lookups, `Spelled` the one of `get_highest_key` |
| `Autocomplete` | `auto.c`, and what `trie.c` keeps at its nodes | one step per line of the file and per question |
| `KanjiConverter` | `convert.c`, and what `kanjitrie.c` keeps at its nodes | a line is one step, folded over its characters; one step per question |
| `TermFile` | the reader of `memtwo.c` (125-241) and its input loop (270-278) | operators; a file is folded over its characters |
| `Verticalizer` | `verticalizer.c` | an operator from a text to the pages printed |
| `TextFiles` | the programs that read a text, side by side on one file | extends `Memorizer`, instantiates `TermFile` and `Verticalizer` |
| `BitSet` | `set.c` | arrays of bytes, a byte as the set of its bits; one action per function |
| `Strings` | `strings.c` | the owner's struct, the buffer as the stores leave it, and the bytes last allocated |
| `PiEstimation` | `monte.c` and `integ.c` | threads that differ in how they share the items; `sum +=` is a read and a write |
| `Cost` | `cost()` of `dt.c` | the OpenMP threads of both regions; `r` is assigned once and read twice |
| `DecisionTree` | the trees and rounds of `dt.c` | a stack of calls of `gen_children`; any sample may become the split |
| `SmallPrograms` | `PiEstimation`, `Cost`, `DecisionTree`, `BitSet` and `Strings`, one at a time | instantiates the five modules; every step is one of the program that runs |

The theorems about a module are in a module of their own: `SplitSortProofs`,
`ForkSortProofs`, `ThreadSortProofs`, `SharedListProofs`, `BadshellProofs`,
`QuizProofs`, `MemtwoProofs` and, for `SmallPrograms` and the five modules that
it instantiates, `SmallProgramsProofs`.

Every abstract module is implemented by a detailed one, checked as a PROPERTY
named `Implements` through `INSTANCE ... WITH`:

* `ForkSort` implements `SplitSort`: `work` is the set of parts that some call
  has not partitioned yet, including the parts of a partition for which no
  call has been made. A part whose fork failed stays in `work` for ever, so
  the refinement holds with failing forks too.
* `ThreadSort` implements it twice, on `arr` with the threads and on `arr2`
  with `quicksort_vanilla`.
* `Memtwo` implements `Quiz`: the row is read off the links, and its state some
  answers ago is computed from the outcomes on the stack. `test_revert` takes
  effect when it is called; its iterations are stutters.
* `SharedList` implements `Stack`.

Most programs have nothing to do with each other. `SmallPrograms`, and the
instances `MCSmallPrograms` and `MCMemorizers`, put several of them next to each
other: a variable `using` says which program a behaviour is of, and the
variables of the others do not change. Every property of such a run speaks of
the programs of one module, which states it. A behaviour of `MCSmallPrograms`
(`MCMemorizers`), seen on the variables of `SmallPrograms` (`Memtwo`), is one of
that module's `Spec`, so the theorems about `Spec` hold of it.

A definition whose comment begins with "Mutant of" is a plausible wrong version
of the definition named. No action uses it; it is there to show that the
property it is paired with in `PROJECT.json` fails when the code is wrong in
that way.

## 3. What is checked

Runs that pass:

* **split_sort** (`MCSplitSort`): four elements with values 1..3, every input.
  The inductive invariant `IInv`, `SortedWhenIdle`, `IsPermutation`.
* **fork_sort** (`MCForkSort`): five elements, values 1..3, two layers of forks
  (the code has eight), every fork may fail. `NoSharedCell`: two calls that are
  still partitioning never have a cell in common, which is why the program needs no lock.
  `NoOrphans`: every process has a parent waiting for it, and none is left when
  `main` counts. `ExitedMeansSorted`: a process leaves its segment sorted when
  it exits. This is the subtle one: `wait(NULL)` in an inner call may reap the
  child of an outer call of the same process, so an inner call may return with
  its right part still unsorted. It comes right because a process makes as many
  waits as forks before it exits. `ResourceBound`: at most `2^MaxDepth`
  processes, at most two attachments each. `Termination`: also when forks fail.
* **thread_sort** (`MCThreadSort`): five elements, values 1..3, threads down to
  depth 2 (code: 5). `NoSharedCell`, `DataLifetime` (no struct is read after it
  is freed, none leaks), `ExitedMeansSorted`, `Termination`.
* **memorizers** (`MCMemorizers`), either of two:
  * the quiz of `memtwo.c`: four terms of which two are written alike, at most
    six answers on the stack, numbers from -1 to 7. `Linked`: the nodes are one
    doubly linked list and `len` counts from the focus to the tail. `Recalled`:
    the stack and the focus agree, so no revert pops an empty stack or walks
    before the head. `FreedOnce`. `AllKnown`: the set is complete only when the
    last answer to every term, not counting those taken back, was right.
  * the programs that read a text: every file of one or two lines of up to four
    characters and of three lines of up to three, over commas, letters and
    newlines, and every text of up to four characters that may also be spaces
    and ideographic commas, well-formed or not. `LinesAreTerms`: while only the
    last line lacks kanji, the second and third pass of `memorizer.c` agree with
    each other and with the format, and no store leaves its buffer.
    `AsksUntilRight`: the quiz is a queue; a term leaves it only when its
    writing was typed, although input is cut at `max_size`. `ReadersAgree`:
    `memtwo.c` turns the lines of the file into the terms they describe and
    rejects it at the first line without a comma, its three buffers are never
    overrun (`BUFF_SIZE` is 2 here, so that they grow), no writing is too long
    to be typed, and on files that both programs read alike they ask the same.
    `PagesHoldText`: on pages of up to two by two, `verticalizer.c` prints every
    character once and in its place.
* **shared_list** (`MCSharedList`): three pushes, four pops or lookups, shmget
  may fail in the child at any push. `SegmentsAreLinked`, `NoneLeft`.
* **badshell** (`MCBadshell`): five words typed, two arguments per command (code:
  ten), fork and exec may fail. `PrintsOutput`, `LiveWhileUsed`, `OnlyArgvKept`.
* **small_programs** (`MCSmallPrograms`), one program at a time:
  * `monte.c` and `integ.c`: three threads, one point each, four rectangles, so
    that one thread has two of them and another one. `SumOfShares`: if every
    unset `area` of `integ.c` happens to be 0, no update is lost and no item left
    out. `Prints`: all threads get the mutex.
  * `cost()` of `dt.c`: three threads, up to three elements. `CostOfShares`: the
    mean is right on top of what the sum held before, the cost too if no thread
    assigned `r` between another's assignment and its reads.
  * the trees of `dt.c`: up to five samples, trees of depth 2 and 0, every choice
    of splits. `SamplesInLeaves`: with distinct inputs the leaves share out the
    samples, none is empty, and each sample is predicted from its own leaf
    unless it was the greatest of a node split at it.
  * `set.c`: three sets of one or two bytes. `HoldsElements` also says, by what it
    leaves out, when a set may not be used: the result of a union has no size.
  * `strings.c`: every text of up to six characters of two, sliced any number of
    times. `ReadsAsText`: the string reads as it should while its pointer is
    good, and the late growth writes at most two bytes past the buffer, which
    `malloc` leaves room for (`Slack`).
  * `bst.c`: four values, all sequences of operations. What survives the defect
    below: `IsTree`, and `SetUntilTwoChildren`.
  * `auto.c`: three lines of seven words that share prefixes, the empty word
    among them. `TrieOfFile`: the trie is the map from words to the line they
    stand on last, its nodes are one tree, and no array of children is overrun.
    `AnswersFromFile`: in a file without repeated words, what is typed is found
    or completed to the word nearest to the top, and the uninitialised
    `true_max` (`trie.c:160`) is never returned, except for an empty input to
    an empty trie.
  * `convert.c`: three lines of five words with three writings, fields that are
    cut, and lines without a slash. `WritingsInFileOrder`: in files without such
    lines the writings of a word are printed in the order of the file, although
    the `is_word` of the root is garbage.

Runs that show a disagreement, one property each:

* **memorizer_kana_only**: `README.md:10` allows lines without kanji, but the
  term index is not advanced behind them (`memorizer.c:131-137, 195-201`): the
  next line overwrites the term, and if it has kanji it is stored through a
  pointer that was never set. The repository's own `test.txt` has such a line (22).
* **badshell_segments_kept**: `shm_argv` (`main.c:109`) is never detached, so the
  segment of the ids is not destroyed after the command, against the comment at
  `main.c:143`. `OnlyArgvKept` shows that nothing else stays, and that these go
  away when the shell exits.
* **bst_remove**: `_BST_minimum` descends to the right where it cannot go left
  (`bst.c:214`). Insert 2, 1, 3, 4 and remove 2: the value 1 is no longer found.
* **autocomplete_repeats**: `README.md:26` calls the word at the top of the file
  the most common, but `add_word` overwrites the value of a word that is there
  already (`trie.c:85`), so a repeated word counts as its last line. In the
  repository's own `Autocomplete/test.txt`, `that` stands on lines 13, 22 and
  857, and `tha` is completed to `thank` of line 300.
* **integ_unset_area**: `README.md:34` says that `integ.c` calculates pi, but
  `area` (`integ.c:46`) is never set before it is added to: what the threads find
  there gets into the sum that is printed.

### Bounds

The bounds are constants of the MC modules and cfg files, and none hides a
case: five elements give partitions with empty parts, single elements and parts
that are partitioned again below the last layer of forks or threads; equal values
occur in every input length; four terms let a move and its revert touch head,
tail, and an inner node, and lists shrink to one remaining term; a stack of six outcomes is
longer than the list. `MaxAnswers`, `MaxPushes`, `MaxReads`, `MaxWords` and
`MaxNodes` only cut behaviours short. `CHECK_DEADLOCK FALSE` is used for the
programs that end, and where such a bound stops the user.

### Fairness

The two sorts and the pi estimation have liveness properties. `FairSpec` of the
sorts adds `WF_vars(Next)`: as long as some process or thread can run, the
operating system runs one. `AllSpec` of `MCSmallPrograms` says the same of the
steps of the pi estimation, and nothing of the other programs, which promise
safety only. No fairness between processes is needed, since every thread or
call takes a bounded number of steps. Waiting for
a child that never ends, joining in a cycle, or a mutex that is never released
would still show as a failure of `Termination` or `Prints`.

## 4. What is proved

All theorems hold for every value of the constants that satisfies the
assumptions named in the modules: `N`, `MaxDepth` and the bounds on what a user
does are natural numbers, the values sorted are integers, those pushed
naturals, `Null` is no term, every term has a writing, every argument a value,
and the names of the processes are those the module uses. The modules that
several runs or proofs instantiate state theirs as an operator `Assumptions`,
which TLC evaluates for the instances of the runs and the theorems assume; those
of the five programs of `SmallPrograms` are its `ProgramsAssumption`. The
theorems about Badshell, the list and memtwo therefore hold for any number of
commands, pushes and answers. The theorems, with the properties of the runs
that they state, are listed in `PROJECT.json`.

**`SplitSortProofs`.** `IInv == TypeOK /\ Disjoint /\ Ordered`. `Ordered` is
the strengthening that makes sortedness inductive: two elements *that no
segment of `work` holds together* are in order. Exchanges inside a segment keep
it because a segment is an interval disjoint from the others
(`ExchangeOrdered`), a split because a pair it separates has the separating
element between its ends (`SplitIInv`). Hence `SortedWhenIdleThm`.
`PermutationThm`: the array is the input under some bijection of the indices;
an exchange composes it with a transposition.

**`ThreadSortProofs`.** `NoSharedCell`, `DataLifetime`, `ExitedMeansSorted`,
`Implements`, `TypeOK`, and that no element is ever lost. `NoSharedCell` speaks
of two calls that are partitioning; by itself it is not inductive, because a
call also has cells that it will hand out later. The invariant follows their
ownership: a call owns its whole segment until it has started its left part,
its right part until it has started that one, and nothing from then on.
`Apart`: no cell has two owners. `Settled`: nobody owns a cell of a call that
is done, nor a pivot in its place. `Shape` says how the calls and the structs
form one tree: which bounds a call has given to the calls it has started, that
it outlives them, and who frees each struct. `Loops` is the invariant of the
partition loop. The refinement of `SplitSort` follows step by step: scanning is
an exchange inside a segment that the call owns, placing the pivot is one that
ends in a split. What a thread was given is sorted when it exits, because
nobody owns any of it any more, so that no segment of `work` meets it, and
`Ordered` of `SplitSort` holds of the array.

**`ForkSortProofs`.** `NoSharedCell`, `NoOrphans`, `ExitedMeansSorted`,
`ResourceBound`, `Implements`, and that no element is lost; with and without
failing forks. Ownership as above. New is `Counted`: a process has never more
children to reap than calls that are still to wait. It is what `wait(NULL)`,
which reaps any child, preserves, and gives `NoOrphans`. For
`ExitedMeansSorted` it also gives that below the first call of a process that
has exited every call is done, in whatever processes they ran; their segments
are then owned by nobody. `ResourceBound` rests on an invariant of its own,
`Limits`: a call of depth `d` that may fork has a number below `2^(d+1)`, so
the processes have odd numbers below `2^(MaxDepth+1)`; and of the calls of one
process at most one has not yet called for its left part (`OneEarly`), so
attachments that early returns leave behind cannot pile up. The provers know
nothing of powers; the three facts needed of them come from counting subsets
(`Powers`).

**`SharedListProofs`.** `SegmentsAreLinked`, `NoneLeft`, `Implements`. Nodes
are numbered in the order of their creation and all pushes precede all pops, so
each node points to the one created before it. `Chain`, the recursive function
that follows the pointers, is therefore a countdown (`ChainIs`). `ShmOK` says
which process is attached to what: only the parent, and only to the list
itself.

**`BadshellProofs`.** `PrintsOutput`, `LiveWhileUsed`, `OnlyArgvKept`. The
invariant divides the segments in two: those of the command in progress
(`Current`), unmarked, and those that earlier commands have left, marked and
attached by the shell alone, once. `ArgumentsOK` and `SentOK` say what the
former hold until the child has read them: arguments, their ids in the order
typed, and an output segment that is none of these. A child inherits the
attachments to both kinds; that they go with `execlp` destroys nothing, since
the shell still has its own. `Sum` and `print.c`'s output are used only as
functions of the arguments.

**`MemtwoProofs`.** `Linked`, `Recalled`, `FreedOnce`. The ghost of the proof
is `Row`, the order of the nodes that the links spell. `Ordered(Row)` says that
the links are those of this order and of no other, and each pointer operation
is shown to change the order as it should: `InsertLinks`, and one lemma each
for moving the node in focus to the end and back. `FocusOK` puts the focus at
the place that `len` counts from the tail, and `RecallOK` relates it to the
number of right answers on the stack, and the number that are still to be taken
back.

The same module proves that `Memtwo` implements `Quiz`. The abstract row of `k`
answers ago is computed from the present row and the outcomes on the stack
(`RowAgo`, a recursive function): pushing an outcome shifts this history by one
place whatever the answer has moved (`HistoryShift`), and popping shifts it
back. `QuizProofs` proves of `Quiz` that what it calls complete is known
(`Known` for the terms answered, and `Stored` for every state that a revert can
return to); by the refinement the same holds of `Memtwo` (`AllKnownThm`).

**`SmallProgramsProofs`.** `SumOfShares`, `CostOfShares`, `SamplesInLeaves`,
`HoldsElements` and `ReadsAsText`, each for the specification of its own module
(`PiEstimationThm`, `CostThm`, `DecisionTreeThm`, `BitSetThm`, `StringsThm`).
Every step of `SmallPrograms` is a step of the program that runs and a stutter
of the others (`StepsAre`), so the theorems carry over to its specification,
which is the one of the runs.

* The sums are folds that take out an arbitrary element first. That it does not
  matter which one is the first part of the module: `SumTakes` (any element may
  be taken out) and `SumUnion`, by the least set for which they would fail.
* `PiEstimation`: any number of threads, points and rectangles, more threads
  than rectangles included. `Progress`: the thread between `read` and `unlock`
  holds the mutex, so what it has read is still the sum when it writes, and its
  loop variable has left a remainder of its own (`Remainders`). `Summed`: the
  sum is that of the shares of the threads that have written, with what each
  found in `area`; where that was 0 for all it adds nothing (`SumZero`), and the
  shares of all threads part the items.
* `Cost`: the same for both regions; that no thread assigned `r` in between
  (`~ raced`) makes `r` the deviation of the one thread that is about to use it.
* `BitSet`: any set of numbers, any sizes. `SetInv` adds that `bytes` is the
  length of the array of every set that was made by `init`, without which a
  union would not be sound.
* `DecisionTree`: any inputs and depths, every choice of splits. `Apart`: of any
  two leaves one holds the smaller inputs only, and `predict` gets to at most one
  of them. `AllKept`, for distinct inputs: no sample is lost, no leaf is empty,
  and `predict` gets to the leaf of a sample if the sample is not a stray.
  `CallsOK` says that the calls to come are about different leaves, so that the
  two children are new nodes. One lemma per part for a leaf that is split
  (`GrownRoutes`, `GrownApart`, `GrownKept`).
* `Strings`: any texts, any slices. `StringInv`: the buffer holds the text and a
  terminator behind it, the text is at most one character longer than the
  owner's size, and that size is `Doubled`, so that halving it leaves no
  remainder before 1. Without this the loop of `string_slice`
  (`strings.c:75-81`) could shrink the buffer to less than it keeps. `SizeIs` and
  `ResizedIs` say what the two loops reach.

The provers know no induction principle with an operator as parameter. Where a
proof is by induction, it takes the least counterexample instead (`Least`, from
the well-foundedness of `<`); a recursive function is known to satisfy its
equation once some function is shown to, which the proof gives explicitly or
builds from such a least counterexample.

Only model-checked are:

* liveness (`Termination`, `Prints`), which is out of the prover's reach;
* the conjuncts of `TypeOK` of `ForkSort` and `Memtwo` that the invariants
  above do not repeat;
* what is computed by `RECURSIVE` operators or by folds over the characters of
  a file: `BST`, `Trie` and its clients, `Memorizer`, `TermFile`,
  `Verticalizer`; the SMT solver is not available to a module with the former,
  and the latter would need an induction over each fold.

## 5. What is not modelled

* Failing `malloc`, `shmat` and `pthread_create`, a failing `shmget` in `quick.c`
  and in Badshell, and the parsing of arguments (of files too, in `bst.c`).
* Time measurement, prompts and other output whose wording no property is about.
* End of input on stdin, after which the interactive programs loop.
* What a store through a wild pointer does to other objects: `Memorizer!Store`,
  `KanjiConverter` and `Autocomplete` either crash or go on as if it had been
  harmless, and `Strings` stops using a string whose pointer dangles.
* Floating-point values: `PiEstimation` and `Cost` count in whole numbers,
  `DecisionTree` neither knows the cheapest split nor the value predicted. The
  schedules of `cost()` and the growth of the trees are checked apart.
* The output size and `int_to_str` of Badshell, and its command trie beyond the
  words found.
* `index_of` of `trie.c` where it ends the program: its only client never calls it.
* The Python and shell scripts: downloading and plotting.

The caller's duties are assumed where the code does not check them: the numbers
added to a bit set are within its size (`set.c:52-61` has no such check).

## 6. Plan

Done: the modules of section 2 and the proofs of section 4. Left:

1. Badshell's output buffer.
2. `IsTree` of `BST`, which would first have to be written without `RECURSIVE`.
