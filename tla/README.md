# EnzOS verification project

EnzOS is a small i686 kernel: a keyboard and a VGA text screen that it polls and writes, a RAM
filesystem, and a shell. It has one thread and no interrupts, so nothing inside the kernel
interleaves; what makes it hard is state that is changed while it is being walked, limits that are
met half way through an operation, results that are dropped, and pointers that were looked up before
an operation and used after it. Around the kernel there is a Go test harness that types on a virtual
keyboard and reads screenshots, and scripts that start and stop the machine: those do run
concurrently with the kernel and with each other.

This directory holds TLA+ modules that model the system, TLC configurations that check them on small
instances, and TLAPS proofs for every size. `PROJECT.json` relates every definition to the lines it
stands for, and lists the runs, the mutants that show that each property can fail, the hazards of the
code, and the theorems.

## Inventory

Paths are those of the repository.

### RAM filesystem: `os/src/fs.c`, `os/src/fs.h`

* **State.** `node_pool` and `node_pool_used` (slots are handed out in order and never given back);
  the fields of `FSNode`: type, name of 31 characters, parent pointer, `children[]`, content pointer;
  `content_pool` and its fill mark; `current_working_directory`.
* **Operations.** `allocate_node`, `add_child`, `fs_detach`, `fs_lookup`, `fs_resolve_path`,
  `fs_create_file`, `fs_create_dir`, `fs_write`, `fs_append`, `fs_copy_recursive`,
  `fs_remove_recursive`, `fs_set_cwd`.
* **Hard.** Both recursive functions walk a tree that they change. A creation takes a slot before it
  knows whether the directory can list it. Contents are handed out front to back and never reclaimed.
* **Correct when** parent pointers and listings agree and form a tree, names are unique, nothing that
  was not handed out is linked, no two files share bytes, a copy mirrors its source and leaves it alone, a
  removal removes its target and nothing else, and both end.

### Shell commands: `os/src/shell/commands.c`

* **State.** None of its own but what a handler keeps between operands: for `cp` and `mv` the
  destination that was resolved first, for `mkdir -p` the directory it has come to.
* **Operations.** `cd`, `touch`, `mkdir`, `mkdir -p`, `rmdir`, `rm`, `rm -r`, `cp`, `cp -r`, `mv`
  change the tree; `pwd`, `ls`, `cat`, `tree`, `echo`, `help` print.
* **Hard.** `mv` changes pointers one by one and can fail between two of them; `mkdir -p` resolves
  paths with code of its own; operands may remove what the next operand or the destination needs.
* **Correct when** what they do is what resolution and the filesystem allow, `mv` loses nothing, a
  path that was made leads to what was made, and the destination of a line stays in the tree.

### Shell front-end: `os/src/shell/shell.c`

* **State.** The line being typed, 32 lines of history, 16 aliases, the capture buffer of a
  redirection, the tokens of the line.
* **Operations.** The line editor, `tokenize`, alias expansion, `history`, `alias`, `clear`, dispatch,
  redirection to a file.
* **Hard.** Tokens are written over the line they are read from; arguments of an aliased command point
  into a buffer that is out of scope; the target of a redirection is resolved after the command ran;
  every buffer has a limit.
* **Correct when** arguments are the tokens of the line, history and aliases hold the last that was
  given to them, and a redirection stores what was printed.

### Keyboard and terminal drivers: `os/src/drivers/keyboard.c`, `os/src/drivers/terminal.c`

* **State.** `shift_pressed`; the screen, the cursor and the color.
* **Operations.** Read a character (a loop over scancodes); put a character, scroll, clear, move the
  cursor.
* **Hard.** The keyboard sees presses and releases only when it polls; wrap and scroll coincide in the
  corner of the screen.
* **Correct when** a key types what it stood for when it was struck, however late the kernel polls,
  and the shift state comes back to the keys; the screen is the end of what was written.

### Kernel entry and boot: `os/src/kernel.c`, `os/src/kernel.s`, `os/linker.ld`, `os/grub`

Sets up the stack, starts the terminal, the filesystem and the shell once. Straight-line code; its
result is what `Init` of the modules states.

### Test harness: `tests/tools/*.go`, `tests/cmd`

* **State.** A connection to the QEMU monitor with the answers that nobody has read yet, and where in
  which scenario the test is.
* **Operations.** Send a command and read up to the monitor's prompt with a deadline, send the keys of a
  line, read the text of VGA memory, wait for the shell prompt, compare with the scenario.
* **Hard.** It runs concurrently with the kernel; a reply that comes after its deadline is taken for
  the next one; a `$` anywhere on the screen counts as a prompt, so keys may be sent while a command runs
  and nobody takes them from the keyboard controller; a scenario that fails while it types leaves its
  keys in the guest.
* **Correct when** nothing is typed before the shell is there, what is judged is an answer of its own
  time, the guest runs the commands of the scenarios and not mixtures, and the test ends.

### Test and CI scripts, build and release: `scripts`, `.github`

* **State.** The QEMU processes, the pidfile of the container, the monitor port, how far each script is.
* **Hard.** The container's start script and the test script look at each other's machine without a
  lock, and two machines may want one port.
* **Correct when** the tests meet one machine, started after the clean-up, and it does not outlive them.

Building an image and publishing it are sequences of external tools.

### How they interact

Only by calls: the shell polls the keyboard, echoes on the terminal, and calls a command handler with
the tokens of the line; handlers call the filesystem and print through `shell_output_char`, which goes
to the terminal or to the capture buffer. They share the tree and the working directory. A handler
runs to its end before the next key is read. The harness talks to the kernel only through keys and
screenshots.

## Modules

| Module | Models | State corresponds to |
| --- | --- | --- |
| `FileSystem` | `fs.c`, and the handlers of `commands.c` from the point where their paths are resolved | `used` node_pool_used; `type`, `name`, `parent`, `children`, `content` the fields of FSNode by slot; `poolUsed`; `cwd`; `copyStack`, `rmStack` the C call stacks of the two recursive functions; `ret` what the last handler reported |
| `FileSystemProperties` | what the above must keep | |
| `FileSystemProofs` | proofs: lemmas about the tree operators, the invariants, what `mv`, `cp -r` and `rm -r` do, the content pool | |
| `MCFileSystem`, `MCFileSystemWalks`, `MCCopyIntoAncestor` | instances for TLC; in the last one `given` is a history variable, what the copy was given | |
| `Commands` | command lines with paths and several operands, `mkdir -p`, redirection: a detailed specification that implements `FileSystem` | `job`: the line, the operands left, the destination found, where `mkdir -p` is |
| `CommandsProperties`, `CommandsProofs`, `MCCommands` | its properties, their proofs and instances | |
| `Typing` | the abstract promise of a keyboard: a key types what it stood for when it was struck | |
| `Keyboard` | `keyboard.c` and, external to it, the controller: a detailed specification that implements `Typing` | `queue` the scancodes of the controller, `shift_pressed`, `got` what keyboard_getchar made of the last one; `held` the keys that are down |
| `Keymap` | the two tables of `keyboard.c`, entry by entry | |
| `Console` | the line editor of `enzos_shell` on top of `Keyboard` | `input`, `echo`; `busy` handle_command runs; `meant`, `taken`, `garbled` are history variables |
| `ConsoleProofs`, `MCConsole` | proofs about `Keyboard` and `Console`, and instance | |
| `Tokenizer` | `tokenize` | `input` the buffer, `read`, `write`, `argv`, `inQuotes` |
| `TokenizerProofs`, `MCTokenizer` | proofs and instance | |
| `Shell` | `handle_command` after `tokenize`: history, aliases and their expansion, builtins, capture, redirection | `history`, `alias_table`, `buffer` and `capture_active` of the capture, `argv`, `target`, `append`; `phase` where in handle_command; `files`, `screen` what it can write to; `shared` where the compiler put `buffer` |
| `ShellProofs`, `MCShell` | proofs and instance | |
| `TextLog` | the abstract promise of a text terminal: an unbounded log of rows | |
| `Terminal` | `terminal.c`: a detailed specification that implements `TextLog` | `buffer`, `row`, `column`, `color`; `past` is a history variable, the rows that scrolled off |
| `TerminalProofs`, `MCTerminal` | proofs and instance | |
| `TestHarness`, `TestHarnessProofs`, `MCTestHarness` | `TestShellScenarios` with `shell.go` and `monitor.go`; the monitor and the guest as external actors | `requests`, `replies` the two directions of the connection; `stage`, `scenario`, `todo`, `looks` where RunScenario is; `keys`, `off` the guest's keyboard controller, by keys, and whether it lost a change of shift; `typed` the line, by the scenarios its characters come from; `screen`, `guest` the guest; `sent`, `timeouts`, `spoilt`, `ran`, `judged`, `since` are history variables |
| `TestScripts` | `integration-test.sh`, `container-start.sh`, `inside-integration-test.sh`; the QEMU processes as external actors | `vm` the processes, `pidfile`, `starter` and `tester` how far the scripts are; `old` is a history variable, what ran before the clean-up. Its proofs are in `TestHarnessProofs` |
| `Induction` | lemmas that the proofs share: induction on natural numbers, what folds and recursive functions compute, parts of sequences | |

Because the kernel has one thread, a handler is one action. The exceptions are the functions that
read what they are changing: each iteration of `fs_copy_recursive` and `fs_remove_recursive` is a step
of `FileSystem` with the call stack as a variable, each operand of a line and each segment of
`mkdir -p` is a step of `Commands`, each character is a step of `Tokenizer`, and each turn of the
polling loop is a step of `Keyboard`, between which keys go down and up. In `Shell` the stages of
`handle_command` are steps because a character printed, the capture and the tables are visible in
between. `TestHarness` and `TestScripts` have a step per command sent, answer read or process started,
since all of these are seen by another actor.

How they compose: `Console` extends `Keyboard`; `Commands` extends `FileSystem`. `Shell` knows a
command only by what it prints and a file only by what it holds: what the command does to the tree and
where the path of a redirection leads are `Commands`, with a redirection as the last step of its line.
`TestHarness` sees the kernel from outside, as a guest that takes keys in their order, shows them, runs
a line and prompts, and takes none while it runs one. What `Console` and `Keyboard` say of scancodes it says
of keys: the controller has room for a few (`QueueSize`), the line for `LineMax` characters, those that do not
fit it are dropped. A key is up to four scancodes, with shift around it, and a controller that has no room
for all of them may lose any: the whole key, its character only, the press of shift, so that another
character arrives (a source of 0 in `typed`), or the release of shift, after which characters may come out
wrong until the driver has seen another (`off`). `TestHarness` allows each of these from the moment when only
one place is free, and any number of times; a key that arrived as it was struck is the same in
both models (`LineIsMeant`).

`FileSystem` takes any node that a path could reach (`Handles`: from the root or the working directory,
down child links and up parent links, so also a removed working directory and what is still below it)
and any name. The destination of `cp` and `mv` is the exception: it is looked up once for all operands, and
an operand may have cut the path that led to it (`mv` of an ancestor of the working directory below a
directory that is then removed), so it ranges over every directory but the slots lost to full
directories (`Kept`). `Commands` computes nodes and names from paths, and `ImplementsFileSystem` says that it
never asks for anything else. Invariants proved of `FileSystem` are therefore invariants of every
command line.

Abstractions: a content is a text and its place in the pool only a count of bytes; a name is a model
value or a short string; a segment of more than 31 characters is a sequence of pieces, since that is
where `fs_resolve_path` and `resolve_parent_dir` treat it differently; messages are the value `error`
of `ret`, or `Message` on the screen of `Shell`. A token of `Shell` is a sequence of words, with a name
before it if it has a `=`; that quotes are lost when an alias is expanded is modelled, the characters
are not. An extended key is modelled by the scancode after its prefix, which the driver skips like a
release. `fs_clone_node` is not modelled: nothing calls it.

### The alias whose tokens are overwritten

`argv` of an expanded alias points into `expanded_line`, a local array whose block has been left when
the line is dispatched. What it reads is undefined, and the variable `shared` of `Shell` stands for
the two outcomes: the array keeps its place, or the compiler gives the place to the capture buffer.
The second happens: GCC 12 with the `-O2` of `scripts/build-elf.sh` lists `buffer` and `expanded_line`
in one stack partition (`-fdump-rtl-expand-details`). Beginning a capture then writes a terminator over
the command's name, and the messages about a command that is not found overwrite the name of the file.

### The copy that overwrites its source

`cp` refuses to copy a directory below itself, but not above. With `/a/a/b` and `/a/a/a/b`,
`cp -r /a/a /` finds `/a` under the name of its source and copies into it: `/a/a/a` to `/a/a`, hence
`/a/a/a/b` to `/a/a/b`, which is in the source and comes after `/a/a/a` there. The old text of `/a/a/b`
is in no file when the copy reports success. Trees of four nodes are too small for it: `fs_walks` passed
with a `CopyMirrors` for all copies, the attempt to prove that failed at the step that needs the copied
node to be outside of the source, and the tree of `MCCopyIntoAncestor` was made from this step. The same
commands on the C code compiled natively lose the same text. What holds, and is proved, is the
`CopyMirrors` that excepts copies whose destination is the source or an ancestor of it.

## What the runs check

| Run | Instance | Distinct states | Shows |
| --- | --- | --- | --- |
| `fs_tree` | 3 nodes, 2 entries per directory, 2 names, from boot, every sequence of commands | 37 692 | the tree stays a tree with unique names and no cycles, calls in progress stay on it, `mv` relocates exactly its operand, `rm -r` completes and is confined |
| `fs_walks` | `cp -r` and `rm -r` from every tree of 4 nodes, 6 slots, 3 entries, 8 bytes | 58 184 | a successful copy mirrors its source and leaves it alone, unless it goes into an ancestor of its source; a copy changes nothing outside its destination; contents fit the pool; walks end |
| `commands` | 3 nodes, 2 entries; a dozen lines whose operands get in each other's way with 3 names, or, once a slot is spent, some seventy lines with relative, absolute, dotted and too long paths, leaves `.` and `a/`, two operands, redirections | 93 704 | lines implement `FileSystem`, `mkdir -p` follows its path and leaves what it was asked for, what `pwd` prints leads back, the destination looked up first stays in the tree, full directories leave fresh slots blank, every line ends |
| `tokenizer` | all lines of up to 6 characters over a letter, `n`, blank, quote, backslash; 2 arguments | 154 914 | arguments are the tokens, in place, with an end |
| `terminal` | 2 by 3 cells, 2 colors, one row of history | 89 244 | the screen implements the log, the cursor stays on it |
| `console` | both shift keys, print screen, `A` and enter with their scancodes; a controller of 2 scancodes; a line of 1 character | 185 198 | keys type what they stood for, shift follows the keys, the line that is run is the one that was meant, a newline is handled however full the line is |
| `shell` | 3 lines out of nine with aliases that name themselves, each other, builtins and redirections; 2 entries of history, 2 aliases, a buffer for 1 character | 39 549 | history and aliases hold the last that was given to them, output arrives where it was sent and nowhere else |
| `harness` | three scenarios (the boot check, an echo, a command), 2 looks before the deadline; a controller of 2 keys, a line of 2 characters | 2 338 933 | no typing before the prompt, answers neither skipped nor read twice, at most one spoilt line per read given up and per key lost or garbled, the test ends |
| `test_scripts` | with and without the container, headless or not, 4 tries | 626 | the tests meet one fresh machine; it is stopped |
| `mv_full_directory` | violation | | `mv` into a full directory loses the node (`README.md:22`) |
| `alias_redirect` | violation | | a redirected alias does not reach its file (`README.md:17`, `README.md:23`) |
| `copy_into_ancestor` | violation | | `cp -r` into an ancestor of its source overwrites a file that it has not copied yet (`README.md:21`) |

Reading the code for these models also met the following disagreements, which no run shows: `touch`
says nothing when it creates nothing (`commands.c:329`, against `README.md:15`); `cp` of a file that was
never written leaves the old content of its destination (`fs.c:374`, `README.md:21`), which is why
`CopyMirrors` compares contents only of files that have one; `pwd` in a removed directory prints the
path of another (`shell.c:222`, `README.md:11`) and `mkdir a/` makes a directory that `a/` does not lead
to (`commands.c:77`, `README.md:14`), which is why `PwdLeadsBack` has its premises; and a failing test
leaves QEMU running (`integration-test.sh:112`, `tests/README.md:26`), which `StopsItsVM` excepts.

### Bounds, and why they are enough

* `MaxNodes` = 3 below the root: every pointer a handler moves connects at most a node, its parent and
  its new parent, and a cycle through `mv` needs two directories. A third node gives each of these a
  bystander, and lets removed and lost nodes coexist with live ones. The pool runs out in every run.
* `MaxChildren` = 2 is the least with siblings; in `commands` three names make directories run full, so
  that creations and moves meet a full directory in the middle.
* `fs_walks` starts from trees instead of boot, so that copies meet subtrees of depth three and
  destinations that already hold a part of the source; two free slots let a copy succeed or run out.
* `copy_into_ancestor` starts from one tree of five nodes with every `cp -r` of it; room for three more
  nodes and for all contents keeps the pool from being why a file is missing.
* `PoolSize` of 8 bytes holds four one-character contents with their terminators.
* A session of `commands` is one of two, which its first line decides: with `LoopLines` all three nodes are
  there, while `touch a` and `rm a` spend one for good, and the two that are left keep the sequences of the
  many `MCLines` few enough.
* Lines of `Commands` are chosen so that each handler meets a relative, an absolute and a dotted path
  and an operand that is an ancestor, a descendant or a sibling of its destination.
* A screen of three rows has a first, a middle and a last one; two columns make every second character
  wrap, and one row scrolled away is enough for wrap and scroll to coincide with each cursor position.
  `MaxPast` bounds the history variable.
* Six characters are enough for three tokens, for a quoted blank, and for an escape inside quotes.
* `console`: a controller of two scancodes holds a press and a release, or a shift and the key it
  shifts, and overflows with the next; `LineMax` = 1 makes the second character the one too many;
  `MaxMeant` = 2 characters struck and not handled lets a full line, its newline and type-ahead occur.
  The proofs are about every size.
* `shell`: tables of two entries run over within three lines (`MaxLines`); `CaptureSize` = 2 leaves room
  for one character, and a command prints up to two (`MaxOut`); `LineSize` = 10 lets some expansions fit
  and others not.
* `harness`: three scenarios give each kind a predecessor and a successor that may have failed;
  `MaxLooks` = 2 stands for the twenty looks in ten seconds, one that is not the last and one that is.
  The number of timeouts is bounded by what the test can give up, and that of lost keys by what it types. `QueueSize` = 2
  lets a key be lost or come out wrong while a command runs, and be lost whole, with no timeout before it;
  `LineMax` = 2 is filled by the longest command, and a line that goes on with the next scenario's keys is
  cut. Only the boot check takes a screenshot and only the echo checks for a prompt afterwards: each is one
  more request, and both at every scenario multiply the states without a new order of keys.
  The proofs are about every size of both.
* `test_scripts`: `MaxTries` = 4 stands for 30; the loop has no other state than its count.

`SYMMETRY` permutes the names of `fs_tree`, which the code only compares. The run checks no liveness.

### Fairness and deadlock

The kernel has nothing else to run while a handler runs, so the handler's steps are weakly fair:
`WF` of `CopyStep` and `RemoveStep` in `FileSystem`, of the handler's steps in `Commands`, of the loop
in `Tokenizer`, and in `Console` of a turn of the polling loop and of the return of `handle_command`.
Nothing obliges the user to type: entering a line and striking a key are not fair. In `TestHarness` only
the test is fair: its reads have deadlines, so that it goes on whatever the monitor and the guest do,
and `SessionEnds` holds without any fairness of theirs. `Shell` and `TestScripts` are checked for safety
only and have no fairness.

Deadlock is checked but where the run really ends: `fs_walks`, in which a seed tree is walked,
`tokenizer`, in which `tokenize` returns, `test_scripts`, in which all scripts and machines end, and
`shell` and `alias_redirect`, in which no line is typed after `MaxLines`. `TestHarness` has an action
`Done` that stands for the test having ended.

## What is proved

For every value of the constants that satisfies the assumptions of the modules. Sizes are natural
numbers, the screen has at least one cell, the history at least one entry, the capture buffer room for
its terminator, a printed path room for one name; texts are sequences of characters, `NULL` is not a
node. Letters have no meaning of their own in a line of `Tokenizer`. The keys that send shift codes are
the shift keys and those that fake one, shift codes type nothing, and what types something with shift
types something without it. A line of `Commands` has an operand, it has a destination exactly if it
is a `cp` or a `mv`, and the last name in a path of it is a name. A line of `Shell` is not empty, and
cutting a name to 31 characters twice is cutting it once. There is at least one scenario.

The recursive definitions of the models are folds and recursive functions. `Induction` derives
induction on the natural numbers from the well-foundedness of `<` in a form without operator parameters
(a set of numbers that holds 0 and successors holds all), and from it that folds and recursive functions
have the values their equations say, step by step; the proofs about paths, texts, sums and queues go
through the intermediate values of the fold, quantified over numbers.

### The filesystem (`FileSystemProofs`)

* `TypeCorrect`, `FreshSlotsBlank`, `LinksAgree`, `NamesUnique`, `CallsStayOnTree`, that is
  `Spec => []P` for `TypeOK`, `FreshBlank`, `TreeLinks`, `UniqueNames`, `CallsOnTree`. The inductive
  invariant `IInv` is their conjunction; none of them is inductive alone. Links need `FreshBlank`, since
  a slot that is handed out must not be linked already, and `TypeOK` for the ranges; unique names need
  the links, since a detached node must disappear from the one listing that has it; the calls in
  progress need unique names, since `fs_detach` removes the first match and the removal above relies on
  the last child being gone; and the links need the calls, since a copy creates in a directory it
  resolved steps ago. The proof has one step per action; lemmas say what creating, linking and detaching
  do to parents and listings.
* `NoCycles`, that is `Spec => []Acyclic`. Every step either drops parent pointers or makes one node
  point at a directory that is not below it: a slot just taken, which `FreshBlank` keeps below and above
  nothing, or the node `mv` moves, which `is_ancestor` has checked. Either way a set of nodes that the
  parent pointers do not leave remains as a witness, the ancestors of the old parent joined with those of
  the new one. `IsAncestor` is stated over such closed sets, and not by recursion, for this argument.
* `MvRelocatesItsOperand`, that is `Spec => MvRelocates`. The root's way to a node is a path of listings,
  and `mv` breaks those that lead over its operand or the file it replaces and no others; since the new
  parent was reached without the operand (it is not below it), the operand and everything below it are
  reached again from there. The file replaced has no children, so it takes nothing with it.
  `RelocatesFinds` is the other half: no entry before it in the new directory has the new name, so
  `fs_lookup` finds the operand.
* `RemovalStaysBelow`, that is `Spec => RemovalConfined`. It needs one more inductive invariant, `Chain`:
  every node with a call in progress has the target among its ancestors. A call goes down to a child of
  its caller and returns by unlinking the innermost node, below which nothing is in progress; that
  unlinking takes no ancestor from the others follows from `Acyclic`.
* `CopyStaysBelow`, that is `Spec => CopyConfined`, with `CopyChain`: every call of the copy creates in a
  directory below the destination of the outermost one. It holds also of a copy into an ancestor of its
  source, since a step of the copy changes only listings at its own destination and takes no parent away.
* `CopiesMirror`, that is `Spec => CopyMirrors`, from `CopyLeavesAll` and `CopyKeepsSource`: what is below
  the source and what is below the destination are related by a set of pairs `R` that grows with each node that is copied (`CopyInv`). Each pair is of a
  node below the source and an entry of the same kind and content outside of it, with the same name in
  the directory its parent was copied to; no entry is a copy of two nodes, or the second would overwrite
  the first; and all children of a pair are paired, but for those that a call in progress has not come to.
  A step adds a pair, and `EntryIsApart` is why it spoils none of the old ones: from `CopyChain`, `Acyclic`
  and the exception for ancestors, the entry is not below the source, and from unique names and `TreeLinks`
  it is a copy of nothing else. When the last call returns nothing is missing, and `CorrespondingMirrors`
  goes from pairs to paths: a path below the source is followed name by name (`DownSteps`), and at each
  name the pair of the child is the entry that is looked up at the destination.
  That no step changes the source follows from the same invariant: the listing that a step changes is
  that of a copy and the file that it writes is in one, so neither is below the source.
* `RemovalDoesItsWork`, that is `Spec => RemovalCompletes`: the inner removals, whose result the code drops,
  cannot fail. The only removal that finds no parent's listing to unlink from is that of a slot lost to a
  full directory, so the invariant it needs is `LostApart`: a lost slot is not the working directory, has
  nothing below it, and is in no call in progress. It is kept because no path leads to a lost slot
  (`HandlesAreKept`), so nothing is created in one or moved into one.
* `ContentsFitThePool`, that is `Spec => []ContentFits`. What all files need is a recursive function over
  the nodes; one store adds at most its own bytes and terminator to it (`NeededGrows`), and
  `content_pool` was advanced by that much. A file that is appended to or written again is stored anew,
  and its old bytes stay counted.

### Command lines (`CommandsProofs`)

* `CommandsAreFileSystemSteps`, that is `CommandsSpec => ImplementsFileSystem`: resolving paths, taking one
  operand after the other, `mkdir -p` piece by piece and redirecting take the tree only through steps of
  `FileSystem`, so that all of the above holds of command lines. A path is a fold, and every node it goes
  over is in each set that is closed under child and parent links; those sets define `Handles`. The
  inductive invariant `CInv` is `IInv`, `LostApart`, and `JobInv`: the destination is a directory that is
  not lost, and `mkdir -p` is at a node that a path leads to. A first attempt with destinations in
  `Handles` failed, which is why they range over `Kept` directories: an operand may cut off the
  destination of the next.
* `MkdirStaysOnPath` and `MkdirParentsDoesItsWork`, that is `MkdirFollowsPath` and `MkdirParentsCreates`.
  After each piece `mkdir -p` is where `fs_resolve_path` leads from the beginning through the pieces it has
  done (part of `JobInv`), although it changed the tree since: creating a node changes no lookup that
  found something, so a path that led somewhere leads there still (`PathsGoOn`).
* `DestinationIsNotLost`, that is `DestinationStays`. `rm -r` is never at work while a destination is kept
  (`RmApart`), a copy only adds to the tree, and a `mv` unlinks a file, which is above nothing, or an
  operand that it links again below the root.
* `PrintedPathLeadsBack`, that is `PwdLeadsBack`: the walk up the parents collects names that, taken from the
  root in the opposite order, are looked up in listings that have them, and the first match is the node
  the walk came from, because names are unique.

### Keyboard and line editor (`ConsoleProofs`)

* `TypeCorrect`; `KeyboardImplementsTyping`, that the driver implements `Typing` under a mapping that reads
  the queue as the driver will (`Pending`: each scancode with the shift state that the ones before it will
  have left); and `ShiftAgrees`, that the shift state follows the keys. The mapping is what makes late
  polling harmless: appending a scancode leaves the shift state before it alone, and taking the head
  moves its effect from the queue into `shift_pressed`. `ShiftAgrees` needs two more facts to be
  inductive: without an overlap at most one source of shift is down, and an overlap has not ended as long
  as one is.
* `ConsoleImplementsTyping`, since every step of `Console` is one of `Keyboard` or leaves it alone, and
  `ConsoleTypeCorrect`, the bounds of line and queue.
* `LinesAreMeant`, that is `ConsoleSpec => []LineIsMeant`. The invariant `Meaning` says of any moment, and
  not only of that of a newline, that what was struck since the last line is what the editor has taken
  followed by what it is still going to read (`Readable(Pending)`), and that the line is the first
  `LineMax` characters of the former. It is inductive only if a key that types with shift also types
  without, which holds of the tables of `keyboard.c` and is assumed as `LegendAssumption`.

### The shell

* `TokenizerProofs`: `TypeCorrect` and `TokensInPlace`. Neither `TypeOK` nor `InPlace` is inductive
  alone: a token fits the buffer because it is written behind the read position, and the read position
  stays in the buffer because the terminator was not overwritten.
  `ArgumentsArrive`, that is `Spec => []ArgumentsAreTokens`, compares the loop with a definition that looks
  at the whole line at once (which quotes are before a character, which backslashes are escaped). Its
  inductive invariant `Cut` says that the loop never stops at an escaped character; that between tokens
  all tokens that start before `read` stand in the buffer where `argv` says, each ended before `write`;
  and that inside one, what is meant by what was read of it stands from its start up to `write`, no
  character of it separates, and `inQuotes` is the parity of the quotes with their meaning before `read`.
  `ReadsOne`, `ReadsTwo` and `ReadsLast` say what one turn of the loop is in terms of that definition:
  a character, a backslash and what it escapes, a backslash that ends the line. TLC checked `Cut`
  on the lines of up to 5 characters before it was proved.
* `ShellProofs`: `ShellTypes`, the types and bounds of all tables; a line being expanded has a first token
  (`Argument`), without which the lookup would leave `argv`. `HistoryHoldsLastLines`: `HistoryIsRecent` is an
  equation between sequences; its inductive form `LastLines` says the same element by element, and
  `RecordedKeepsLast` that shifting the array keeps it. `OutputReachesItsTarget`, that is
  `Spec => []OutputArrives`: `Underway` says phase by phase where the output is before it arrives,
  on the screen or, with a target, in the buffer, and that the files are untouched until the last step.
  `AliasesAreAMap`, that is `Spec => AliasesLatest`: the table is searched in order, so replacing the first
  match replaces what a lookup finds only while no name is there twice (`NamesDistinct`), which the cut of
  a new name to what the table can hold does not spoil, because names are cut before they are compared.

### The terminal (`TerminalProofs`)

* `TypeCorrect`, and `TerminalImplementsLog`, that `Terminal` implements `TextLog` under the mapping that puts
  the rows scrolled away before the rows of the screen. `TypeOK` is the only invariant it needs. The
  lemmas are `ScrollAppends` (scrolling the screen appends a row to the log), `PutShows` (writing a cell
  of the screen writes the cell of the log that it shows) and `LineFeedIsNextRow`.

### The test harness (`TestHarnessProofs`)

* `NothingTypedAtBoot` and `JudgedByItsAnswer`, that is `Spec => []P` for `BootedBeforeTyping` and
  `JudgedInTime`, from one inductive invariant, `Judging`. `InOrder`: what is on its way in both
  directions of the connection are the last requests, one for each read that was given up and one for the
  read that goes on, so the answer read next is as many back as there were timeouts. `Timely`: without
  timeouts what is read while a scenario waits for its output was seen after its last key. `Booting`: while
  the machine boots, no answer on its way shows a prompt, however late it is.
* `CommandsArriveWhole`, that is `Spec => []LinesAreCommands`. `Typing` says that what is left to type is the
  rest of one scenario, and `Lines` that two functions exist that follow the line through the keys that
  the guest has not taken and the requests that the monitor has not carried out; along them never more
  lines are broken than `Budget` allows, one per read given up and one per key that did not arrive as it was
  struck, and fewer while the line still holds what an earlier scenario left, because that one is going to
  be broken. A timeout thus pays for the broken line before it is run. A key that is lost or altered
  changes everything that is behind it on the way, so the functions are built anew from there
  (`FollowsFrom`), and `Alike` compares new with old: at most one more line is broken, and none while the
  lines still differ. Every further key keeps this (`AlikeKey`): a character changes no count, and
  after a return both lines are empty. So a lost return, which joins two lines, costs one like a lost
  character does, and `spoilt` has paid for it. That a line is cut off at `LineMax` needs nothing of its
  own: `Stored` is applied to what is meant as to what arrives.
* `TestsMeetOneFreshVM` and `ScriptStopsItsVM`, that is `ScriptsSpec => []P` for `TestsMeetFreshVM` and
  `StopsItsVM` of `TestScripts`. `ScriptsInv` adds what the two scripts rely on without looking: one
  machine at most has the port; the container's machine has not been started while its script is at the
  start, so that one started later is not an old one; the script's own machine has not been started
  before the script starts it; and what was running at the clean-up is dead for good.

## What is only model-checked

* All liveness: `WalksEnd`, `LinesEnd`, `Terminates`, `EnterHandled`, `SessionEnds`. Liveness under
  fairness is outside what the proof system handles. Every other property of the passing runs is stated
  by a theorem.
* The three violations, which are counterexamples of small instances.

## Not modelled

* Boot (`kernel.s`, `kernel.c`, the linker script) and the build: straight-line sequences without state
  that anything else observes. Their result is the `Init` of the modules, and the action `Prompt` of
  `TestHarness`.
* The bytes of `content_pool`: contents are texts, and only how many bytes they need is counted.
* Redirection of the builtins `history`, `alias` and `clear`: `handle_command` returns from them before it looks for a
  `>` (`shell.c:515`), so `history > f` writes to no file, in the code as in `Shell`, and `OutputArrives` says nothing of it.
* Lines of more than twelve words, which overrun `argv` (`shell.c:404`): undefined from there on.
* The formatting of numbers and listings, and the printing commands (`ls`, `cat`, `tree`, `echo`,
  `help`), whose output no other part reads except as the text of a redirection.
* Image conversion (`tests/tools/image.go`, a pure function on pixels; that it may fail is modelled),
  scenarios of several lines, and errors of the connection itself, which end the test at once.
* `stop-vm.sh` and the container's other scripts, which end the container and all in it; the smoke test,
  which runs a test that `tests/cmd` does not have; the release scripts (external tools).
