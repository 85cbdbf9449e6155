# TLA+ models of CForth

CForth is a Forth system in C: an inner interpreter (`forth.c`) that runs tokens,
a compiler that lays them down in a dictionary (`compiler.c`, `forth.c`), an outer
interpreter and most of the language written in Forth (`*.fth`), and hosts that
embed it in programs and microcontrollers.  This directory holds TLA+
modules of the parts in which a mistake needs a sequence of steps to show, TLC
configurations that check them on small instances, and TLAPS proofs.

Paths below are relative to `src/src/`.

## Inventory

| Part | State | Operations | Talks to | What makes it correct |
|---|---|---|---|---|
| Inner interpreter, exceptions, locals (`cforth/forth.c`, `catch` in `interp.fth`, `locals.fth`) | rp, sp, ip, `HANDLER`, `XFP` | call, exit, `>r`, `catch`, `throw`, `allocate-locals`, `free-locals`, entry from C | every other part throws through it | a throw goes to the innermost catch that is still running, with the stacks it found; frames are popped whole; locals belong to the running word |
| Compiler, dictionary (`forth.c`, `compiler.c`, `control.fth`, `util.fth`) | `DP`, `LASTP`, `THISDEF`, `STATE`, `COMPLEVEL`, `SAVED_DP`, `COMPBUF`, threads | `:` `:noname` `create` `;` `forget`, `[` `]`, `+level` `-level` | errors come from the outer interpreter | threads lead down the dictionary to the origin; a word is found from its `;` on until it is forgotten; interpreted control structures leave the dictionary alone |
| Multitasking (`lib/tasking.fth`, `(pause`) | the ring of user areas, `ASLEEP`, `pause` | `pause`, `multi`, `single`, `stop`, `sleep`, `wake`, `fork`, `task:` | `pause` is called from blocks and I/O | the ring is closed, nobody starves, a task runs on stacks of its own |
| Blocks (`cforth/block.fth`, `blockio.fth`) | headers in order of use, buffers, the file | `block` `buffer` `update` `discard` `save-buffers` `empty-buffers` `flush` | `pause`, file I/O, throw | no update is lost, each block has one buffer |
| Outer interpreter (`interp.fth`, `io.c`, `main.c`) | input source, nesting, `HANDLER` at the prompt | `quit`, `interact`, `refill`, `evaluate`, `include-file`, signals | compiler, exceptions, console | sources are restored on every error; an error at the prompt never kills the session |
| Callbacks, re-entry (`execute_xt`, `switch_stacks`, `sys-accept`, `continuation`; `app/esp8266`) | `ctbuf`, the current stacks and three saved ones, what the host waits for, unacknowledged data | callbacks from timers, GPIO, network, the host's key loop | inner interpreter | the interrupted computation goes on as if nothing had happened; an answer waits for its own connection |
| Line editor (`cforth/lineedit.c`) | line, cursor, history, completion, escape sequence | one action per key | `accept`, the dictionary's names | pointers stay in the buffer; the terminal shows the line; the history holds the latest lines, whole |
| Dictionary image (`dictfile.c`, `SAVE`) | dictionary and user area in a file | save, load | everything in the user area | what is restored means the same in the new process |
| XMODEM (`lib/xmodem.fth`) | sector numbers, errors, timeouts | send, receive | serial line | what is received is what was sent, over a line that loses and delays |
| Open Firmware layer (`ofw/core/ofwcore.fth`, `deblock.fth`, `ofw/fs`) | `my-self`, instances and their parents, `interposer`; the buffer of a deblocker and the part of the device it stands for | `open-dev`, `open-package`, `interpose`, `$call-method`, `close-dev`, `close-package`; `open` `seek` `read` `write` `close` | file systems and SD card, through `$call-parent` | an instance is closed once and before it goes, and nobody is left with its address; a program finds the bytes it wrote where it wrote them |
| Arithmetic, formatting, floating point | none | pure words | - | the results |
| Console and file I/O, foreign calls, platforms, drivers, applications, decompiler and debugger, C tools | devices | I/O | - | - |

Hard behaviours: errors at any token of a definition or control structure
(compiler); unwinding over frames that save each other's pointers (exceptions);
tasks that alter the ring they are in (multitasking); disk failures between two
cache updates, and another task in the middle of `flush` (blocks); callbacks that
re-enter the interpreter; lost acknowledgements (XMODEM); a path that fails half way, and a
device that refuses blocks in the middle of a transfer (Open Firmware layer).  `PROJECT.json` lists
them as hazards, each with its line and the properties aimed at it.

## Plan

Done, in order: `Exceptions`, `Compiler`, `Tasking`, `BlockCache`, `Xmodem`, `InputSource`
(checked and proved, but for liveness), `LineEdit` with its history (checked and proved),
`Reentry` and `Deblocker` (checked and proved, but for liveness), and `Instances` (checked and
proved).
`InputSource` implements `InputStack`, `Exceptions` implements `TryCatch`, `Compiler`
implements `Vocabulary`, `BlockCache` implements `BlockStore`, `Deblocker` implements
`ByteDevice`, and `LineEdit` is built on
`History`, which implements `LineHistory`.  Next:

1. `Exceptions` composed with `InputSource`: `HANDLER` across `quit`, signals and a saved
   image, where it may point at a frame that is gone.
2. `Deblocker` composed with `Instances`: a device whose `read-blocks` throws.
3. `Xmodem` with answers that come after a timeout.

Not planned: platform start-up, drivers and vendored code (pure device I/O), the
arithmetic and number formatting words and `printf` (sequential, well tested), the
decompiler and debugger (they only read), the C programs that build images (batch
tools), the Java port and the applications.

## Exceptions, TryCatch, Exceptions_proofs

`Exceptions` has the return stack cell by cell, as it lies in memory (`rs`, `rp`),
because what can go wrong is one frame's pointer being read from another's cell.
A pointer into the stack is the depth of the cell it points at.  `handler` and
`xfp` are the user variables, `ip` is where execution goes on (a word, the tail of
`catch`, `freelocbuf[]`, or the C host), `depth` is the depth of the data stack.
Each action is one token: `Catch` is `catch` up to its `execute`, `CatchDone` the
rest; the copy to `RSSAVE` that `throw` makes for `atrace` is left out; `AllocateLocals` and
`FreeLocals` are the two code words, the latter with the `unnest` behind it in
`freelocbuf[]`.  `frames` is a history variable: "stale" once a throw has left a
word with locals, "stray" once a store through the stale `XFP` has hit a cell that
is not a local of the running word; behaviours end there, since anything may
follow.  The program is any sequence of tokens that balances `>r` and `r>` before
it leaves a word and allocates locals where the compiler does.

`TryCatch` is the promise of the exception word set in terms of depths alone.
`ImplementsTryCatch` maps its set of running catches to the catch frames on the
return stack.

- Run `Exceptions` (RSSize 13, DSSize 2, MaxLoc 2).  13 cells hold two catch frames
  and a locals frame, or two locals frames and a catch frame, with return
  addresses between them, in every order, so that an inner frame can save the
  pointer of an outer one of the other kind.  Deadlock is not checked: a full
  return stack may leave nothing to do.
- Run `ExceptionsLocals` shows a finding: `throw` does not restore `XFP`.

Proved in `Exceptions_proofs`, for every `RSSize`, `DSSize` and `MaxLoc` in `Nat`:
`TypeCorrect`, `HandlerChainCorrect`, `StackDisciplineCorrect`,
`LocalsCurrentCorrect` and the refinement `Refinement`.  The
inductive invariant `IInv` is the conjunction of the listed invariants; none is
inductive alone, since popping a catch frame is right only because the frame is
whole (`WellFormed`), and that the chain stays innermost-first needs that the cells
above are gone.  The argument: the lemmas on `Push` and `Cut` say what a stack
looks like after a push of well-formed cells or a cut at a frame boundary, stated
for stacks as parameters; one lemma per action then follows.

## Compiler, Vocabulary, Compiler_proofs

One vocabulary with one thread, cells for headers, code fields and tokens, and
`COMPBUF` above the dictionary.  An action is an immediate word, a defining word,
or a turn of the outer interpreter; `Throw`, `ThrowToHost` and `Quit` can come at
any point of a definition.  `running` are the activations of `COMPBUF`: a word in
an interpreted control structure may call `evaluate`, which may open another one.
`marks` are the marks of `if` and `ahead` on the data stack, as addresses: an error in a
definition may leave one there, and a later `then` stores through it, into whatever lies
at that address by now.  The loops of `control.fth`, whose branches go both ways, are
left out.  `def`, `torn` and `slip` are history variables; a behaviour ends at the first
*slip* (an error while a level is open; a `;` that reveals an xt without header; a `then`
without a mark, or with one left behind that points at a header) or when `COMPBUF` is torn,
because from there on arbitrary memory is compiled, searched or executed.  All of these can
happen; no property covers what follows them.

Nothing in the code keeps `DP` within the dictionary or `COMPBUF`: `,` and the compiling
words never look at `LIMIT`, and `allot` complains after it has moved `DP`.  `Room` is a
bound of the model that excludes the overflow of either, and nothing is claimed about it.
A program of the model does not start a definition inside another or inside an interpreted
control structure (`CanDefine`).

`Vocabulary` is the abstract set of findable names.  Findable words are those the
thread leads to, so the refinement says that hiding, revealing and trimming a
linked list in memory amounts to adding and forgetting names.

- Run `Compiler` (5 cells, COMPBUF of 3, two marks, two activations): room for
  two named words and a headerless one, for one with a control structure in it whose mark
  outlives it and points into the header of the next but one, and for nested structures
  that fill `COMPBUF`.
- What the slips are can be seen with two invariants that no run has: `HiddenHeader` fails
  because `:noname` after a failed `:` has a pending reveal of an xt without a header
  (`forth.c:609`), and `BufferWhole` because a control structure interpreted while another
  runs overwrites it (`forth.c:657`).
- Deadlock is not checked: a slip ends a behaviour.

Proved in `Compiler_proofs`, for a dictionary of any size, a `COMPBUF` that is not empty
(`SizesAreNat`), and any bounds on the nesting: `ThreadStaysSound`, `HereStaysInPlace`, the action property `LeavesNoTrace` and `Refinement`.  `ThreadSound`
says of the words that they lead down to the origin; that `reveal` keeps it so needs what
`IInv` adds: every link has its code field behind it (`LinksLead`), and `LASTP`, when it has
a header, is the newest word of all, and is on the thread or would be if it were revealed
(`LastIsNewest`).  Those two are lost at a slip, and the invariant claims them only before
one.  The lemmas say which cells are words after one cell is stored, after a header is, and
after the dictionary is cut (`Forgotten`), and that code stored where no header is changes
nothing (`CodeWritten`); that a mark of an open level lies in `COMPBUF` is what keeps `then`
out of the dictionary (`Popped`).  Each action is one of these or leaves the memory alone.
For the refinement the names that can be found are the words from the thread on down, of
which a header that is hidden is no part and one that is revealed is the first.

## Tasking, Tasking_proofs

`link`, `asleep` and `pause` are per user area, `up` is the running task.
`EnterPause` and `PauseStep` are the code word `(pause`, one turn of its loop at a
time; the other actions are the words of `tasking.fth`, run by the current task.
`Allocate` copies the creator's user area, as the code does.  `Ring` is the set of
tasks reached over the links.

Fairness is weak fairness of `PauseStep` (a `do ... while` loop in C goes on) and of
`EnterPause` (a cooperative task that can pause does so eventually; a task that
never pauses starves the others in any such system).  `EveryTaskRuns` excepts a
current task that has called `single`.  A program wakes only tasks that it has
forked, and calls `stop` only after `multi`; both are preconditions of the words.

- Run `Tasking` with three tasks: enough to insert a task between two others, and
  for a third to be dropped.  Deadlock is checked.
- `ForkedInRing`, which no run has, fails: a task allocated before the first `multi` is
  dropped from the ring by its own `fork` (`tasking.fth:27`).

Proved in `Tasking_proofs`, for any set of tasks: `TypeCorrect`, `RingClosedAlways`,
`OwnStacksAlways` and the action property `RingKeptAlways`.  `IInv` adds to those that
tasks without a word to execute are asleep (`Idle`, so that `(pause` passes them by)
and that nobody enters `(pause` before there is a ring (`NeedsRing`).  The lemmas
`RoundAlone`, `RoundStep` and `RoundInsert` say, for links and tasks as parameters,
that a new ring is closed, that it looks the same from each task in it, and what
becomes of it when a task is put behind the current one.

## BlockCache, BlockStore, MCBlockCache, BlockCache_proofs

The headers are a function from positions to block, buffer and flag, in the order
of latest use; header 0, the temporary slot, has no life between words.  Each word
is one action, because a task gives up control only in the `pause` at the start of
`file-buffer`; `flush` is two, with that pause between.  Every read and write can
fail: a failed write may leave anything in the block, a failed read anything in the
buffer, and the word is left by a throw at that point (`BufferFails`, `ReadFails`,
`SaveFails`, `FlushFails`).  `adr` is the address a program got last and may store
through until it asks for another block or pauses; a block number stands for
number and file together, and `offset` is 0.

`BlockStore` is the promise: contents change only in the hands of a program and
are given up only by `discard`, `empty-buffers` and the end of `flush`; after
`save-buffers` they are on the disk.  The end of a `flush` may give up what another
task updated during its pause: the code does that, and the abstract module says so
rather than hide it.

- Run `BlockCache`: four blocks, two values, three buffers (a hit can be at the
  front, in the middle or at the end, and one block is always out), one task in
  `flush` while others work.  Blocks other than block 0 are symmetric
  (`MCBlockCache`); no liveness is checked under symmetry.

Proved in `BlockCache_proofs`, for any number of buffers, blocks and values
(`BlockAssumption`: block 0 is a block, 0 is a value, there is a buffer):
`TypeCorrect`, `OneCopyAlways`, `CleanIsDiskAlways`, `UpdateMarksAskedAlways`.
`IInv` is their conjunction.  `CleanIsDisk` is not inductive alone: a read or a store
into one buffer leaves the others as they were only because of `OneCopy`, and a
write of one block leaves the clean ones valid only because no two headers have that
block and (`UpdateMarksAsked`) none without a block is dirty.  The lemma on
`Touched` says what moving a header to the front does; those on `Written` and
`WriteFails` what the disk holds after some writes; the actions follow from them.

`RecentStaysKept` is the action property: what moves to the front (`Touched`) pushes out the
last header and no other (`TouchedKeeps`), and every other action leaves the headers in their
order.  `Refinement` is that of `BlockStore`: of one block the abstract contents are what its
buffer holds, where it has one, and otherwise what the disk holds (`IsView`); that is one value
because of `OneCopy` (`OneView`), and `CleanIsDisk` makes it the same before and after a buffer
is given away (`MovedView`, `ReadView`), a write fails (`FailView`) or all are saved
(`SavedView`).

## Xmodem, Xmodem_proofs

`sx` and the receiver (`start-receive`, `+receive` and the application that writes each
full buffer, as in `xmodem-to-file:` of `app/esp8266/files.fth`) on two machines, with
the line between them.  An action of the receiver is one `try-receive` with what the
loop of `+receive` does after it, since only whole sectors matter to the sender; the
`gobble` of `receive-error` is a state of its own, because it eats what the sender
repeats meanwhile.  A sector is its number; `Wrap` is 256, `Chunk` the buffer in
sectors.  The line loses anything and damages sectors before or after their number
has been taken.  What does nothing in the code does nothing in the model: `done?`,
which is read by no one, and `#errors`, which `wait-ack` clears first.

Assumed: bytes arrive long before a timeout (six seconds against milliseconds), so a
side times out only when nothing is under way to either, the receiver's `gobble`
covering the moments when both do; a byte is never damaged into a control character,
and damaged data never fit the checksum.  With answers later than the timeout
`wait-ack` takes an old ACK for a new one, which is listed as a hazard.

Fairness: both programs run on and their timers with them (weak fairness of `Send` and
`Receive`), and `gobble` ends, which takes 100 ms without a byte where the sender
repeats itself every six seconds (strong fairness of `RNak`).

- Run `Xmodem`: six sectors, a buffer of three, numbers modulo 4, four faults and
  `max#errors` of 3, so that buffers are handed out, a number wraps, and both sides
  can run out of patience.  `FileIsSent` and `AckedIsStored` except two kinds of
  sectors that were resent (`AtWrap`, `AtEnd`; `heard` keeps the record).  Deadlock is
  not checked: a transfer ends.
- Run `XmodemChunk` shows, with one fault, why it has to: a resent sector at the end of the
  buffer is lost to `junk-buf`.  In the same way (`ResentAtWrap`, which no run has) one whose
  number is 0 on the line goes 256 sectors too far when it comes twice.

Proved in `Xmodem_proofs`, for files and buffers of any length, sector numbers of any width
above one, any `max#errors` and any number of faults: `TypeCorrect`, `FileStaysIntact` and
`AckedStaysStored`.  None of the three is inductive.  `IInv` says first what is on the line:
at most one message or one answer, and the message is what the sender has last sent
(`ToReceiver`, `ToSender`, `FromSender`, `Phases`); this is where the assumption on the
timeouts enters.  `Counted` relates the two sector numbers: the receiver has the number of the
present sector or of the one before, or is ahead by `Wrap` for each fault that made a sector
whose number goes over the line as 0 come again, and a message that is damaged or an answer
that has not come has its fault paid already.  The bound of `TypeOK` on `got` is no more than
that.  `InPlace`, as long as no sector of `AtWrap` or `AtEnd` was heard twice, says that the
receiver is level with the sender or one behind, that what it counts was heard, that the file
has whole buffers, and that every sector which the sender has left behind (`Acked`) is in its
place.  The lemmas `NumberAfter` and `NumberAgain` say what `update-sector#` makes of a number,
by writing it as a multiple of `Wrap` and a rest; `HeaderFacts` and `Hearing` what that means
for the invariant when a sector is taken, and the three actions that take one follow.

## InputStack, InputSource, InputSource_proofs

A source is an address, a length, a place in the line and a `source-id`; a buffer is memory
and holds the line that was read into it last (`text`), so that a source that is restored
reads what the buffer holds by then.  `nest` is what runs: `interact`, `evaluate`,
`include-file`, each with the source that it saved (`interact` saves none; there the field
is history).  `run` says what the innermost one does, "raised" being an error on its way to
the next `catch`.  Any word may refill the source (`[else]`, a multi-line comment), raise an
error, open another source, quit, or set `'exit-interact?`.  `leave` is that variable.

`InputStack` promises that the words of the innermost source are taken one after the other.
A source gets its next line, or gives way to the one outside it, only when the words of its
line are used up, and the one outside goes on with the word after the one that opened it.
`error` is part of the abstract state: while it is on its way no word is taken, every source it
passes loses the rest of its line (`Pass`), and it ends at the innermost `interact` and nowhere
else (`Catch`).  A normal end that drops the outer line, an error that is swallowed and a word
that is skipped are therefore no steps of it; the mutant of `ImplementsInputStack` swallows an
error in `evaluate`.  A word such as `[else]` takes the words up to the end of the line one by
one before it refills the source.

A behaviour ends where a source is *torn*: where an `interact` within a word returns to a
source it has replaced, or its lines have overwritten one that waits.

- Run `InputSource`: two files, two buffers, strings and the terminal, two lines of two
  words, nested three deep.  Two words are the least with which something remains behind
  the word that opens a source, and with three levels an error passes through a source
  that has words left.  Deadlock is not checked: the outermost `interact` ends, and a torn
  source ends a behaviour.
- `ResumeReturns`, which no run has, fails: `interact` within a word, as the debugger's F
  command runs it, gives the source back to nobody.  On the host build the rest of the included file is not read,
  and `include-file` goes on to close `source-id` 0 and to free the terminal's buffer.

Proved in `InputSource_proofs`, for any files, buffers, lines and depth of nesting:
`TypeCorrect` and `SourcesOwnedAlways`.  `include-file` closes `source-id` and frees the
buffer of whatever source it is at, without having kept either: that this is its own file
follows from the invariant `IInv`.  Each level is at a source of its own kind, where the
place of a level is what the next one saved, and that of the innermost is `src`; the files
and buffers of the `include-file` levels are open, in use and all different; what else is
open is lost.  It says so unless the source is torn, after which nothing is promised.  The
lemmas (`OwnedBegin`, `OwnedInclude`, `OwnedBack`, `OwnedEnds`) take the nesting and the
source as parameters, so that the normal end and the end by an error share them.

`Refinement` is that of `InputStack`, one step per action.  It needs one thing more, that the
string of `evaluate` never changes while it is read (`TextInPlace`).  The abstract stack is a
sequence computed from `nest`, `src` and `text`; `OneMore`, `OneLess` and `NewTop` say what
becomes of such a sequence when a level is put on it, is taken off or moves on, and the
lemmas `...Opens`, `WordTakes` and `...Closes` that the action does that.

## LineHistory, History, LineEdit, MCLineEdit

`History` is the array of the history, searched, shifted and reordered in place:
`validate_history`, `already_in_history` (`Found`, `MoveToFront`), `add_to_history`
(`Prepend`, `Capped`) and `get_history` (`Recalled`).  `LineEdit` has one action per key and
state of the escape sequence.  `ed` is the line, the cursor in it, and the terminal as the
characters and backspaces that were emitted leave it; an operation is a function of `ed`, and
a loop of the code (`Erase`, `Kill`, `AddAll`, `Matches`) is its body done as often (`Times`).
A tab completes the word under the cursor or exchanges the proposal for the next one.
`spilled` is history: a proposal that found no room makes the next tab erase typed text, which
is listed as a hazard.

`LineHistory` is the list of lines that the array stands for: the latest first, each once,
lost only from the other end, and the last one cut.  A character with the high bit set makes
`validate_history` empty the array, which `Forget` and `Spoilt` admit.

- Run `LineEdit` (`MCLineEdit` has the dictionary): lines of up to three characters, one of
  them a space and one wide; an array of five, so that two lines fit and a third cuts one;
  three words of which one begins another.  Lines follow each other without end, and
  deadlock is checked.

Left out: words of 32 letters, for which `find_word_under_cursor` stores one past its array;
a recalled line that would fill the buffer loses its last character, and a key after a lone
ESC is swallowed, Enter included: the model does the same.

Proved in `InputSource_proofs`, for rooms, dictionaries, arrays and lines of every size: every
property of the run (`ScreenAlwaysShowsLine`, `ProposalsKeepTyped`, `EditedHistoryWhole`,
`KeepsLineHistory`), the type invariant (`EditTypeCorrect`), and `HistoryAlwaysWhole`, which is
about `HistorySpec`, the history by itself with any lines.

The invariant, `EditInv`, has `ScreenShowsLine` as part of the set `Editors`, in which every
operation on the line stays (the lemmas `...Keeps`).  Its other parts are about the proposal: the
names that it goes round are there (`Offered`), no escape sequence is under way and the line is
not finished, so that no key but a tab comes between two proposals; and, as long as nothing was
spilled, what is before the cursor has all of the proposal in it (`PutIn`), without which the next
tab would erase too much.

A loop is a recursive function on the finite set of its turns; that there is one at all is the
lemma `LoopRuns`, and `LoopKeeps` that what each turn keeps is true at the end.  Both go by
`Induct`, which takes a set of numbers in place of a predicate: a least number outside it
(`NatLeast`, from the well-founded order on `Nat` of the library) has no predecessor.

The lemmas about the array take it and the length as parameters, since the code validates before
it adds: `FoundInside` says that a line which is found ends before what the length covers does,
without which a move to the front could take the last terminator away.  For the refinement,
`Laid` says that the cells hold given lines at given places, and `LaidRead` that the lines which
`get_history` would read off such an array are those.  `PrependLaid` says it of the array after
a new line, by way of the one that it would be if it had no end (`JoinLaid`), which then is cut
(`CutLaid`), and `MoveLaid` of the array after a line has moved to the front; `FoundLaid` says
that a line is found just when it is one of those laid, and `SpoiltIs` that `validate_history`
empties the array just when one of them is spoilt.

## Reentry, Reentry_proofs

A foreground program in the event loop of `app/esp8266`.  `key`, `sys-accept` and `rest` leave
the inner interpreter through `out`, with its state on the stacks, and the host calls it again
(`lua_handle_input`, `delay_callback`) on whatever stacks are current.  `V` is the pair XRP,
XSP; of a stack the model keeps whose it is, how many computations wait on it and how many
cells on it belong to no one.  Timers and `connect_cb` run on the current stacks, alarms and
pins on the alarm stacks, the other network callbacks on the lwip stacks, which
`RESTORE_STACKS` writes back because an answer may wait on them in the middle of a callback
(`tcp_write_wait`, `continuation_cb`).  `ctbuf` is one: what a callback ends with is read from it
when the callback ends, and `overtaken` records that somebody else has written it meanwhile.
`recv_cb` stands for the other callbacks of `lwip.c` on the lwip stacks too, as an answer of no
pieces.  A behaviour ends at a *slip*: "ctbuf" (an interrupt between the store and the fetch runs
the wrong word), "crossed" (an answer goes on with another's connection), "stray" (an
acknowledgement for which nothing waits), "lost" (the foreground is resumed for what it does not
wait for).

Assumed: a callback waits by `continuation` alone, and does not throw, change timers or call
`ms`; a pin does not interrupt an alarm or another pin, as `extend.c:331-333` assumes;
`tcp-write` takes a piece whole or refuses it.  Network, timers and pins are external and do
anything else at any time.

Fairness: what the inner interpreter runs goes on (weak fairness of `Callback`), the foreground
waits now and then, since it keeps the event loop out meanwhile (weak fairness of `Foreground`),
and every connection's acknowledgements get their turn in the event loop again and again (strong
fairness of `Sent`: data that keep being unacknowledged are acknowledged).

- Run `Reentry`: two connections with an answer of up to one piece of two segments each, buffers
  of two segments, two answers on the lwip stack.  A piece of two segments can be acknowledged in
  two parts, the second of which then comes too late or for another answer; two answers are the
  least that can cross.  Excess cells are counted up to one.  Deadlock is not checked: a slip
  ends a behaviour.
- `SendBlocks`, which no run has, fails: of two answers the one that began last goes on with the
  connection of the one that was acknowledged first.

Proved in `Reentry_proofs`, for any connections (there is one at least) and any bounds above
zero: `TypeCorrect`, `KeepsForeground`, `KeepsStacksLevel` and `KeepsAnswers`.  What `IInv`
adds to the invariants of the run is who is where: the stacks of the foreground are the
current ones unless an alarm, a pin or a network callback runs, and then they are in the
one place from which that callback takes them back, with what the foreground waits for on top
(`WhoRuns`); the host waits for the same thing (`HostInStep`); and unless `ctbuf` was
overtaken it holds the token that the running callback, or the answer on the lwip stack, will
end with (`TokenKept`).  `ForegroundKept` alone says nothing of a callback's own end, which is
where it would be broken.  `AnswersKept` counts answers by connection; the lemmas `Here...`
count the places of the stack they wait in, and say that a place more is an answer more.

## ByteDevice, Deblocker, OpenFirmware_proofs

A deblocker is a buffer over one device: `dstart` is the position of its first byte, `btop` the
bytes that are valid, `bend` those that may be written and `bcurrent` the next one, which may
pass `btop` while a write extends the file (`sync`).  `buf` and `dev` are the bytes.  Every
method is an action; of `read` and `write` there is one for each turn of the loop (`CopyOut`,
`CopyIn`) and one for getting the next part of the device into the buffer (`More`, `Room`), so
that `rem`, what is left to move, is a variable.  `Get` is `?flushbuf` and `fillbuf` together:
nothing can come between.  The device is that of the file systems and the SD card: without
`#blocks`, extended where it is written at its end or beyond (`write-blocks` of `ext2fs`,
`methods2.fth:176`), with any bytes in what it fills (`Stored`), and free to take fewer of the
blocks it is asked for, or to give fewer (`Taken`, `Gives`), some as well as none.  It may also
say that it took fewer than it has, as `ext2fs` does, which always says 1: `shortfall` is
whether what it said was less than it was asked for.  `lost` is history and changes whenever it
takes or gives fewer.

`ByteDevice` is the promise: an array of bytes, a position, and transfers that move bytes from
the position on until there are no more or the device refuses.  The array may have a hole, which a
write beyond its end leaves; the device may put bytes there, below one that was written, and
nowhere else.  A failure may spoil one stretch of `BufSize` bytes and the
position, and nothing else.  `ImplementsByteDevice` maps the array to the device with the valid
bytes of a changed buffer over it (`Data`).

A seek goes to its position unless the bytes end before that in the window it lies in.  Then it
goes to where they end, or to the start of the window if the window has none.  The comment of
`deblock.fth:280` says more, that seeking past the end of the file goes to the end of the file.
The code does so only within the last window: further out it goes to the start of the window it
sought, which is beyond the end, and what is written there leaves a hole.  `ByteDevice` states what the code does
(`Seek`), so that the disagreement is a matter of record here and of no run.

Fairness: the loop of a transfer goes on by itself (weak fairness of `Turn`).

- Run `Deblocker`: a buffer of three bytes over a device of up to four, transfers of up to four
  bytes, blocks of one byte as the file systems have them.  A transfer can begin and end within
  a window, fill one, skip one, and pass the end of the device, and a window can lie across
  that end.  `MaxPos` bounds the position, since a device that takes nothing lets a program
  write on for ever.  Deadlock is checked.  Blocks of two bytes, in a buffer of one or two
  blocks, pass too (`BlockSize` 2, `BufSize` 2 or 4).

Proved in the second part of `OpenFirmware_proofs`, for blocks of any size, buffers of any number of blocks, devices
and transfers of any length, and a device that fails at any time: `TypeCorrect`,
`CleanStaysDevice` and `Refinement`.  What `IInv` adds to `CleanIsDevice` (`InWindow`) is where
each turn of a transfer finds the window: `copyout` does not begin past `btop` (`read` has
synced), it has handed out all of the buffer when more is got, and `copyin` has filled the
buffer to `bend` when room is made, which is why the next window begins where this one ends.
Every step is shown to keep `IInv` and to be one of `ByteDevice` in one lemma each (`...Step`);
`WrittenFacts` says what the device is after the buffer is written, whole or in part, and
`GotFacts` where the program is after another part of the device is got, whole or not: where it
sought to, or where the bytes of that window end.  The lemmas on `%` (`WayIs`, `MultipleOf`) show that
windows begin at multiples of `BufSize` and that a device that is extended is still whole blocks.

## Instances, MCInstances, OpenFirmware_proofs

An instance is an address; `parent` is its `my-parent`, `mySelf` the value `my-self`.  `calls` is
the return stack in so far as it has instances on it: code that runs (the program, a method, an
`open`, a `close`, the method of `execute-device-method`) and the words of the layer that wait for
it (`open-package`, the walk of a path, the walk up a chain).  Code may do anything at each point:
call a method of its parent or of an ihandle, open a path or a package, close what was returned,
interpose, return, fail, throw.  `held` has the ihandles that were returned and not closed, each
with the instance at which `close-package` will stop.  Which node a name stands for is left out, so
that any component of a path may be there or not, with any number of parents opened on the way
(`open-parents` and the loop of `(open-path)` are both `SelectNode`).

`catch` of CForth restores `sp` and `HANDLER`, not `my-self`, while Open Firmware's does, and
the comments of `begin-open-dev` and `open-dev` (`ofwcore.fth:2537`, `:2555`) say that it is so
here.  An error that leaves a method which was called through `package(` is therefore caught with
another `my-self`, and `close-chain` destroys the wrong instance.  A behaviour ends there, and
where an interposed package has been opened, since `open-package` then leaves `my-self` in the
one below it (`astray`).  Whatever is thrown by a method of the instance that catches it is in the
model, and so is an interposed package that fails.

Nothing makes a package close what it opened before it is destroyed itself.  The `open` of the SD
card does not (`app/esp8266/sdnode.fth:86`): when `disk-label` fails and the card was open before,
it returns false with its deblocker open, and `close-chain` frees the deblocker's parent.  The
ihandle was in an `instance value` of the instance that goes, so nobody can use the deblocker or
close it.  The model has this: `Destroy` moves the instances whose chain goes through a destroyed
one (`Gone`) from `live` to `abandoned`, and takes their ihandles from `held`.  The properties
are about the living, and say so.

Assumed of the methods: a chain that still runs is not closed, nor is its parent; an ihandle that
`open-package` returned is kept in the data of the instance that called it, which is also what
`close-package` says it expects (`ofwcore.fth:2307`), and is lost with it.

- Run `Instances` (`MCInstances` has the symmetry of the addresses): four instances, nested calls
  up to five and any number that close.  Four are a device with a parent, a package of its own and
  an interposed one; five calls let an `open`, or a method that the program has called, open a path
  or a package in its turn.  Deadlock is checked, so that closing never waits for a method that
  cannot end.  An instance with an open package fails or closes without closing it, and an
  interposer fails, in many of the run's behaviours.
- What `NothingLost` excepts is what such a package abandons, and `leftOpen`: a support package that
  is not there is the one error on a path that closes nothing (`ofwcore.fth:2495`), and
  `execute-device-method` forgets the instances it had opened.
- `open-dev` and `begin-open-dev` return the last of those instances after the same error, where
  their comments say 0 (`ofwcore.fth:2537`, `:2555`).  `NothingLost` counts it as held, since whoever
  gets it can close it.  `ZeroAfterThrow`, which no run has, is what the comments say, and fails.
- `ClosedFirst` excepts one step by name, `InterposerFails`: when the `open` of an interposer fails,
  `open-package` destroys the package below it, which was opened, without calling its `close`
  (`ofwcore.fth:2396`, `:2401`).  On every other path `close` comes first, and is not called again
  for an instance while it runs.

Proved in the first part of `OpenFirmware_proofs`, for any number of instances and any depth of
calls: `InstancesTyped` (the type invariant, with the bound on `calls`), `NothingDangles`,
`EverythingFound` and `ClosedBeforeGone`, the last three from `ChainsStay`.

None of the three is inductive.  That `destroy-instance` leaves no address of the instance behind
needs that no other word, no ihandle and no instance below has it, which is a matter of everything
that was called and opened before.  The invariant `ChainsInv` therefore says, until a behaviour
goes astray:

- `Stacked`: what may stand on what.  A word of the layer stands on code, of whose `my-self` it has
  saved the value, and what it calls (`open`, `close`, the applied method) stands on it, at an
  instance which is not the end of the word's chain.
- `Tree`: the parents of the living are alive and no instance is above itself; the others have none.
- `Alive`: every address of a word or an ihandle is that of a living instance, and an ihandle's
  chain goes up to the instance at which it will end.
- `Apart`: each word that waits has a segment of a chain to close (`Segment`: from the instance
  whose method it called, or `my-self`, up to where it ends).  No chain of a word or of code below
  has an instance of it, and no segment of an ihandle (`Kept`) either; nor do two ihandles share one.
- `Covered`: every living instance is in the segment of a word or of an ihandle.
- `Single` and `NotYet`: a package on which nothing was interposed is directly above the `my-self`
  of its `open-package`; what runs its `open` or `close` is not in `opened`.

With it an instance that a word is about to destroy is the lowest of its own segment, so no other
word has it (`OnlyHere`).  What goes with it are the instances that have it on their chain
(`Felled`).  None of them is at a word below, and of an ihandle's segment all goes or nothing,
since a chain that enters another's segment does so at its end (`FelledApart`): what is left is
still apart and covered (`Shrunk`).  `NothingDangles` is `Alive` and `Tree`, `EverythingFound` is
`Covered` (and `Alive`, for the other direction).  `ClosedBeforeGone` follows from `NotYet`, as
each step that destroys destroys only the instance of an `open`, `apply` or `close` that runs, but
for `InterposerFails` (`ClosedStep`), and from `OnlyHere` (`CloseOnce`).  `Chain` is the least set that has an
instance and the parents of its members, so that facts about chains need no induction
(`ChainLeast`).  One lemma says for each action that it keeps `ChainsInv` (`...Step`); three that
they share are about an instance that comes (`GrowStep`), one that goes (`ShrinkStep`) and a
segment that goes from a word to an ihandle (`ReturnStep`).

The bound on `calls` takes an argument of its own, since code that is called at a `close` may close
in its turn, at any depth: above `MaxCalls` there are only words that close and their `close`, and
each of either kind has an instance that no other has (`BoundedStack`, by the pigeonhole
principle).

## What is only model-checked

The type invariants are proved, all of them; only those of `Exceptions` and `Xmodem` are among
the properties of a run as well.

Liveness (`PauseReturns`, `EveryTaskRuns`, `Arrives`, `Answered`, `Terminates`) is out of the
prover's reach.  The two properties that a run shows to fail, `LocalsSurviveThrow` and
`ResentAtEnd`, are TLC's by nature.  Every other property of a run is proved.

## Not modelled, and known limits

- Data is abstract: what words compute, names as text, search order and
  immediate flags are not there.  The arithmetic, formatting and I/O words, the decompiler and
  the debugger's display keep no state that other parts rely on.
- Most of the repository by size is start-up code, register definitions, SDK and driver code of
  the boards, vendored libraries, fonts and a port to Java: none of it has the program's own
  logic, and none is modelled.
- `HANDLER` across `quit`, a signal or `SAVE`: `quit` resets `rp` and leaves `HANDLER`, and the
  saved image carries it into the next process.  Listed as hazards, in no module.
- `save.c` reports `Can't write user area image` whether it could or not, because of a stray
  semicolon; the tool that uses it is not modelled.
- Of the Open Firmware layer the device tree and its properties, `select` and `unselect`, the
  client interface and the file systems.  Its heap (`ofwcore.fth:3505-3920`) is not compiled into
  CForth, and nobody calls `check-alarm` of its alarms.
- The deblocker with `#blocks`, which no device of the repository has: `clipped-#blocks` takes the
  lesser of a block number and `block#`, which is always 0, and transfers nothing
  (`deblock.fth:81`).  What `write` returns is not in the model; on a shortfall it is the count
  with the wrong sign (`deblock.fth:305`).  `write-shortfall` outlives a seek whose flush has
  failed, so that a later long write ends early: the model does the same.
- How many blocks `write-blocks` says it took: `ext2fs` returns 1, whatever it has written
  (`ofw/fs/ext2fs/methods2.fth:187`); the model's device may say any number up to what it took,
  and a transfer ends when that is fewer than it was asked for.
- 64-bit cells make the header size in `block.fth` wrong; the model has headers
  that do not overlap.
- A program that calls `ms` in a timer callback shares the one `delay_timer` with the
  foreground, and a `throw` in a callback unwinds to the `HANDLER` of what it interrupted:
  outside the assumptions of `Reentry`.
