# A verification of the sfmm repository

The repository holds five C programs written one after the other. This directory
holds TLA+ models of the parts with state that is hard to get right, what is
claimed of them, configurations for TLC, and proofs for TLAPS.

    tlc -workers 2 -config MCQueue.cfg MCQueue       a model-checking run
    tlapm QueueProofs.tla                            the proofs of a module

## The system

| part | source | state | operations |
|---|---|---|---|
| request queue | `hw5/src/queue.c` | linked list `front`/`rear`, semaphore `items`, mutex, `invalid` | `create_queue`, `enqueue`, `dequeue`, `invalidate_queue` |
| hash map | `hw5/src/hashmap.c` | slots with key, value and tombstone, `size`, `num_readers`, `write_lock`, `fields_lock`, `invalid` | `create_map`, `put`, `get`, `delete`, `clear_map`, `invalidate_map` |
| cream server | `hw5/src/cream.c` | one queue, one map, a descriptor per connection | accept loop, worker threads, `handle_request` for PUT, GET, EVICT, CLEAR |
| allocator | `hw3/src/sfmm.c` | four segregated free lists, boundary tags and links inside one heap | `sf_malloc`, `sf_realloc`, `sf_free` |
| shell | `hw4/src/main.c`, `sfish.c` | the programs of a line, pipes, list of stopped jobs, current job, process groups | command line parser, built-ins, fork and wait, signal handlers |
| UTF converters | `hw2/src/*.c` | the arguments, the glyph buffer, which survives from one character to the next, two file offsets, and the files, also one that was there | UTF-8, UTF-16LE and UTF-16BE into each other |
| ciphers | `hw1/src/*.c` | a table built from a key, the symbols of a letter that is not complete | argument validation, Polybius and fractionated Morse, both ways |
| greeting | `hw0/src/*.c` | none | prints a constant |

`hw5/src/csapp.c` is vendored, `hw5/src/extracredit.c` a stub.

How they interact. In cream, `main` accepts connections and hands each to the
queue; the worker threads take them from the queue, read one request, call the
map, answer and close. The queue and the map are the only memory the threads
share; the map calls back `map_free_function` to destroy what it displaces. The
shell's handlers of SIGCHLD, SIGINT and SIGTSTP interrupt its main loop and one
another, and work on the same job list. The allocator is called by one thread; it shares its heap
with the client, who writes into the blocks it holds. The other programs are
sequential.

What is hard, and what makes each part correct.

* **Queue.** `items` is a semaphore *and* the length of the list in the eyes of
  `enqueue` and `dequeue`, but it is lowered by `sem_wait` before the mutex is
  taken. Between the two anyone may run. Correct: an item is handed out once and
  in order, no freed node is touched, no item is left behind with nobody to be
  woken for it, and an invalid queue stays as it is.
* **Map.** Readers share `write_lock`; the first takes it, the last gives it
  back, under `fields_lock`. `get` and `delete` read the slot they return after
  the unlock. Deleted entries are tombstones that keep their value and their
  place. Correct: readers and writers exclude each other, readers always get out,
  every value is owned once, `size` counts, and the table is a map.
* **Allocator.** Every call leaves traces that only a later call reads. Correct:
  the blocks tile the heap, the lists hold exactly the free blocks, no memory is
  given out twice, data survives.
* **Cream.** Results of one lock used after it (`isFull` then `put`; `get` then
  writing the value to the socket), descriptors closed twice if the queue hands a
  connection out twice, blocks smaller than what is read into them, one failed write
  that ends the whole process.
* **Shell.** Signals between any two steps of the loop and of one another's handlers; a wait that any signal ends; ends of
  pipes that every later child inherits; a parser that keeps what it has seen in two
  variables. Correct: no wake-up and no change of a child is lost, a stopped job is
  listed once it can be, pipes end, and a line is run as it is meant.
* **Converters.** Widths, bit layouts and surrogates at the boundaries; a read that
  is shorter than asked leaves the rest of the buffer as it was; an output file that
  was there keeps its end; options and names come in any order. Correct: at any time
  what is written spells what was read, and a run does what its arguments mean.
* **Ciphers.** Searches that end only at what they look for, letters beyond ten as
  coordinates, symbols that are taken by threes across the borders of letters. Correct:
  the table is the alphabet in another order, and decoding undoes encoding.

PROJECT.json lists each hazard at its line with the properties that guard it.

## The modules

| module | what it is |
|---|---|
| `Queue` | the queue, one action per stretch of code between two points at which another thread can act |
| `OneWorkerFifo` | what the queue promises a program with one worker |
| `QueueProperties` | invariants, action and liveness properties, the refinement mapping |
| `QueueProofs` | the theorems about the queue |
| `Induction` | least numbers, induction up to a bound, and functions defined step by step, without recursion |
| `HashMap` | the map with its two locks |
| `ShadowMap` | what the map promises: a bounded map with shadowed copies and holes |
| `HashMapProperties`, `HashMapProofs` | as for the queue |
| `Sfmm`, `SfmmProperties`, `SfmmProofs` | the allocator, its heap and its client |
| `Cream`, `CreamProperties`, `CreamProofs` | the server over whole instances of `Queue` and `HashMap` |
| `CommandLine` | the shell's parser, from a line to its programs |
| `Sfish`, `SfishProperties`, `SfishProofs` | the loop of the shell, pipes and job control, its children and its user |
| `Utf`, `UtfProperties`, `UtfProofs` | the converters, one turn of a loop at a time |
| `CipherArgs` | the arguments of the cipher program and the 16 bits made of them |
| `Ciphers`, `CiphersProperties`, `CiphersProofs` | the tables and the loops over the input, one turn at a time |
| `MCQueue`, `MCHashMap`, `MCSfmm`, `MCCream`, `MCSfish`, `MCUtf`, `MCCiphers` | constants for TLC |

In all of them some decisions stand alone as small operators,
each after a form it could have by mistake (`SemAvailable` after
`WakesWithoutPost`). The mistaken forms are used by nothing; they are there to
be put in place of the right ones, and for each property one of them makes TLC
find a violation. PROJECT.json lists which.

### Queue

State: `front`, `rear`, the fields of the nodes (`itemOf`, `nextOf`), which nodes
are `allocated`, `items` (the semaphore), `lock`, `invalid`; for each thread `pc`
and the locals `node`, `size`, `got`. An action ends where another thread can
change what the code reads next: at `sem_wait`, at the mutex, at `sem_getvalue`,
at `sem_post`. Inside the mutex the list is private but the semaphore is not, so
`enqueue` is `EnqueueAlloc`, `EnqueueEnter` (up to `sem_getvalue`), `EnqueueLink`;
`dequeue` is `DequeueWait`, `DequeueEnter`, `DequeueUnlink`. A pointer to
no node that is followed sets `fault`: "null" or "freed". `calloc` may return any
address that is free, and fails when there is none. `linked`, `stamp` and
`delivered` are history.

The model shows what the semaphore's double role leads to. With one worker,
when the last item is taken `sem_getvalue` gives 0, so the node is *not*
unlinked; the next `enqueue` replaces the list (and leaks that node). When an
`enqueue` comes while the worker has been woken for the last item, it replaces
that item before it was taken; the worker gets the new one and the semaphore
stands one too high, so later a `dequeue` may meet a `NULL` front (`fault`
"null", which is why `EachItemLeaves` allows it). `OneWorkerFifo` says this in
four lines: a FIFO queue with `Overwrite`. With two workers the second may read
the front the first one has read and not unlinked.

`invalidate_queue` is one action: its loop is bounded by the *return value* of
`sem_getvalue`, which is 0, so no item is destroyed and no node freed, although
`queue.h:37` says destroy_function is called on all items. It does not wake the
workers that wait.

### HashMap

A slot is key, value, tombstone; `NoKey` is `key_len` 0, `NoVal` a NULL
`val_base`. `put`, `delete`, `clear_map` and `invalidate_map` hold `write_lock`
from their first access of the table to their last, so each is one action
guarded by `WriterMayEnter`. `get` is `GetAnnounce` (count under `fields_lock`;
the first reader keeps it), `GetLock`, `GetProbe`, `GetRelease`, and `Return`, the
read of the value after the unlock; `delete` ends with `Return` too. `Values` are
the blocks `malloc` can give for a value; `live` are those given to the map and
not destroyed. Reading the freed table sets `fault`.

What the model shows besides the findings: a tombstone is never reset, so a slot
once deleted from never serves again until `clear_map`, and a `put` into it
overwrites and destroys its old value; a full map counts tombstones; a forced put
overwrites the slot the hash names even if the key is in the map elsewhere, and
the older copy comes back when the newer one is deleted or displaced
(`ShadowMap`: `Displace`, `Unlist`); `invalidate_map` leaks the last slot;
`delete` does not check `invalid`. One simplification: a `Return` that falls
into the middle of a `put` on another core could see half of the new value; it is
taken as a read before or after it.

### Sfmm

The heap is an array of 8-byte rows, each a tag, a link, client data or zero. A
row read as something it is not (data as a link) stops the program (`fault`), as
does `abort`. Sizes are in rows: `MinBlock` 4 rows is `LIST_1_MIN`, a size that is
odd needs padding. The memory at first holds zeros in the rows that `Clean` gives and
anything else elsewhere, as `sf_mem_init` uses `malloc`. `sf_sbrk` (only its object
file is in the repository) gives `MaxPages` adjoining pages and then fails. The client
asks for any size in `Sizes`, frees and resizes only what it holds and stays inside it;
it fills every block it gets before its next call, up to a number of rows (`writes`).

A tag is not always written whole. `initPage` and the part of `makeBlock` that splits
set `allocated` and `block_size` of the free block's tags and leave `padded` to what lies
there (`Unset`): so a row of data carries the bit that would be read as `padded`
(`PaddedAt`), header and footer of a free block may differ in it, and `BlocksTile` claims
it of allocated blocks only, where `errorTesting` compares the two. With the claim made
of all blocks TLC finds it violated.

The code leaves its lists out of order in five ways, named at the top of
`SfmmProperties` ("head", "dropped", "links", "footer", "kept"). An ordinary
invariant would fail on the first of them and say nothing about all the rest, so
the heap records which have happened (`slips`), each invariant says what holds
as long as only the slips it names have happened, and `Tolerated` bounds how far
a run follows the program behind them. "Nothing else breaks this" is the claim.
"kept" is a disagreement with `sfmm.h:142`, by which `sf_realloc` to 0 frees the
block: it looks for a free block of size 0 first, or asks for a page, and returns with
`ENOMEM` and the block still allocated when there is neither.

### Cream

`Q == INSTANCE Queue` and `H == INSTANCE HashMap`: the acceptor is the queue's only
producer, the workers are its consumers and the map's threads, and a step of
the server that calls one of them *is* an action of that instance. What is added:
descriptors (`FreeFds`, closed and given again by accept), for each worker where it
is in `handle_request`, the request it has read and the response it will
send, and which blocks of memory it is filling. A `PUT` is `ReadRequest`,
`CheckFull` (the unlocked `isFull`), `PutStores` or `PutRefused`, `WriteHeader`,
`CloseConn`; a `GET` goes through the four steps of the map's `get`, then
`WriteHeader` and `WriteValue`, which reads the map's memory. A client may be
silent for ever, and since the Rio wrappers call `exit` on any error a client that
hangs up may end the process at any read or write (`IOError`). `BadFree` is an
`EVICT` of a bad key size, which frees a pointer nothing was assigned to.

What it shows. With several workers the queue may hand out a connection twice,
after which everything goes wrong for reasons that are the queue's; the
constraint `EachHandedOutOnce` therefore follows a behaviour until that happens,
and what the run claims is claimed of the server up to there. A `PUT` of good
sizes is refused only when the map filled up between `isFull` and `put`
(`RefusedOnlyInRace`). The blocks for a key and for a value are mallocs of
`sizeof(uint32_t)` bytes, into which up to 2048 and 4096 are read. `ReadInto` lets any
key or value be longer than its block: then the bytes of any set of other values are
overwritten and the process goes on, or keys, items or the allocator's tags were hit as
well and the run is "overrun" and not followed any further. `overrun` remembers it, and
what is said of a `GET` is said until then. A `GET` sends the value of its key if no `PUT`, `EVICT` or
`CLEAR` took effect since it searched (`QuietGetSendsItsKey`), and a `GET` of a key
stored last finds it as long as nothing has been evicted (`LastPutIsFound`); the run
checks both as `GetSendsLastPut`.

### Sfish

The loop of `main.c` is one action per call that another party can see:
`ReadLine` reads a line and parses it, then for each program `InstallHandlers`, `Fork`,
`SetJob`, `SetGroup`, `SetForeground`, sigsuspend, `Resume`, and at last `Leave`; a
program that may not be run is met by `RefuseProgram` when its turn comes.
`fg` is `Fg`, `FgContinues`, `FgForeground`, `RemoveFind`, `RemoveUnlink`; `kill` is
`KillPid` or `KillJob` and the same removal, or `KillNothing` without an argument.
`signal` blocks a signal only while its own handler runs, so the handlers are frames
(`running`, the innermost first): `Deliver` begins one for any pending signal that has
none, while the loop's mask lets it through or another handler runs; only the innermost one
goes on, and the loop when there is none. `at` says where each is. `sigchld_handler` is
a step per `waitpid`; `sigtstp_handler`, which it calls for everything it does not know,
is its own `waitpid` and then `addJob` and `kill`. `addJob` is a step for each
access to `head` and `jobNum` that another handler may come between: the test of `head`
(`AddTests`; the list does not become empty while a handler runs, so what is read of `head`
a moment later may as well be read here), `jobNum = 1` (`AddFirst`), `jobNum` read
(`AddNumbers`), `head` written (`AddLinks`), and `jobNum++` in two (`AddCounts`,
`AddNext`). `old` and `num` are what each of them has read. Children end, stop and are killed by anyone at any time; `Key` is the
terminal's ^C and ^Z for its foreground group. Pids are given in a fixed order
and `fork` succeeds while there are some. Several signals that wait come in any order.

`CommandLine` is `programify` and `makePrograms` on words, blanks and the three
signs. `tok` is what the next word will be, `hasRed` whether both kinds of
redirection were there. `exit` is obeyed where it is read (`Exits`). A pipe is made
before each fork and is named by the process forked after it: `ifd` is the one the next
program reads from, `writeEnds` those the shell can write to, `holds` what each child
has inherited. A child keeps the ends it has until it ends; what it opens for
itself is not modelled.

What it shows. The programs of a pipeline run one after another, since the
shell waits for each before it forks the next (one that fills its pipe waits for
ever). A second program cannot join the group of a first one that has been
reaped, so ^C does not reach it. `fg` gives the terminal away only as long as it
takes to come back to the prompt, and does not wait. When any child is stopped,
or killed by a signal other than 9 and 25, a copy of the *current* job is
listed. A job that a handler lists between the two halves of `removeJob` is lost
when the head is unlinked (`torn`; `StoppedJobListed` fails without it once there are four events). A handler inside
`addJob` of another lists a job too, which the outer one drops from the list or puts
its own in front of; the current job is listed either way. Both jobs have one number
if the inner one lists its job after the outer one has listed its own and before `jobNum++`
is done (`crossed`; `JobNumbersDistinct` fails without it), so `fg` finds only the
first of them; in every other order the numbers stay distinct. `kill %j`
does not get past the first job (`stuck`), with no jobs it takes the number for a
pid. `fg` of a number nobody has follows a null pointer, and so do `kill` without an
argument and ^C that comes between the handlers' installation and the blocking of the
signals on the first command (main is "crashed").

Of lines it shows that a part without a program (`ls | `) ends the shell with
a null pointer after `ls` has run, that `ls | cd` runs `ls` before it refuses the
line, that `exit` anywhere in a line exits before anything of it is run, and that
`cat <` reads the terminal: what is missing is taken for the empty word, so the message
"No argument after redirection or pipe" (`main.c:87`) is never printed. The tests of
names for `<` and `>` (`main.c:251`, `255`) are never true. The shell closes the end it
could write to, which is what `PipesEnd` needs, but never the other one: a
descriptor is lost with each program.

### Ciphers

`CipherArgs` is `validargs`: an argument list is its flags, of which only the letter
counts, and their values. At most three options are read, a flag without a letter counts
as none. `Crashes` are the lists for which it reads an argument that is not there. A run of the program is `Run`, turns of `PlaceLetter` until the table is
filled, `TableDone`, then `EncodePolybius` or `EncodeFm` a character at a time, or
`DecodePolybius` and `DecodeFm` in `RunBack`, the second run, which reads what the
first one wrote. The four functions fill their table by copies of one loop, and
`PlaceLetter` is all of them; the symbols of a letter are taken one by one
(`EncodeSymbol`, `DecodeSymbol`). Two variables of `f_decode` are never initialized, and
both are searched for a byte that is zero: `tail` is what lies behind the three symbols
of a letter in `space2`, up to such a byte (any of `Tails`), and `dirty` says that byte 6
of the buffer is not zero, which `clearBuffer` leaves as it was. Where the code would read beyond an array the run is
"astray" and nothing is said of it from there.

What it shows. A search for a character that is not in the table leaves it, although
`const.c:5` says that such characters "should be preserved". The key takes cells
before the alphabet and only the alphabet is asked to fit, so with a long key and the
default table the last characters have no cell (`RoomForKey`); a key may repeat a
character at a distance (`KeyDistinct`), which the usage text rules out, and sides of 9
are taken while those of 16 are not, where it says 10 to 16. A column above 9 is printed from
'o' on while a row is printed from 'A' on, and decoding takes 7 off both: characters in
those columns do not come back. A line in Morse loses its last letter when its symbols, with
the separator of the line, are two more than a multiple of three, gains a space when they are
a multiple, and comes back as it is when they are one more. Decoding ends
at the first newline. If memory is not zero behind the three symbols of a letter,
what is there is read as symbols after each of them, and nothing is claimed of what comes
back; if it is not zero behind the first six bytes of the buffer, the characters with codes
of six symbols come back as spaces (`Legible`).

### Utf

A run begins with its arguments (`Run`, then `Encoding`, `Name` or `Usage` for each
turn of the loop of `parse_args`) and ends in `Refuse`, in `Crash`, or in a conversion:
`Start` (mark detection, and the mark the conversion writes), turns of a loop
(`FromUtf8`, `ToUtf8`, `SwapUnits`) or `Transcribe`, and `AtEnd`. `disk` holds every
file; `Written` is what `open` without `O_TRUNC` and writes from the beginning on
make of one. As nothing else touches the files it is applied when the run is over
(`Done`), and what a run wrote may be the file of the next one. `pos` is the offset of the input, `buf` the glyph
union as four bytes, of which a read fills what is there (`Filled`) and leaves the
others. At the start of a run `buf` holds anything in `Stack`. The two directions of
a pair of forms share an action where the code differs only in a reversal. The
bytes of a text are not computed in the properties: `Denotes` says what a
sequence of bytes stands for and `Spells` that they are a text.

What it shows. The last `-e` counts and the first two names, wherever they are
(`ArgsAreMeant`, against a definition that looks at whole lines); without an encoding
the program makes its output file and then calls NULL. An output file that was longer
keeps its end, which is all that is in it besides the text (`OutputComplete`) and which
a conversion back does not keep out of the text it makes (only then does `RoundTrip`
let anything follow). The `lseek` in `main.c:16` has its arguments in the wrong order, so
the mark is read as a character: from UTF-8 the output has two marks, and the loops
from UTF-16 leave out U+FEFF wherever it is. From UTF-16 the conversion ends at
U+000A, and at U+00A0, U+0A00 and U+A000 as well. `is_upper_surrogate_pair` and its
counterpart leave their bounds out, so U+10000 to U+103FF and U+10FC00 to U+10FFFF
come out wrong in UTF-8 (`Misread`). Between the two forms of UTF-16 the program
looks at `lower_bytes` before anything was read into it, so uninitialized memory
may make it take two characters for one pair (`stray`); the second form still has the
same units then, unless the second is a mark or a line end. A file that is cut off
within a character is completed with bytes of the one before it. The properties
are exact about everything else: each conversion is right between characters, a cut
costs at most one character (`CutCostsOneCharacter`, checked with the two
directions as `ConversionExact`), and there and back gives the text again.

## Runs

| run | configuration | states | shows |
|---|---|---|---|
| `queue_one_worker` | MCQueue.cfg | 170,921 | 7 properties, 2 producers, 1 worker, 1 closer, 3 nodes, 4 items |
| `queue_two_workers` | MCQueuePool.cfg | | `AtMostOnce` fails with 2 workers |
| `queue_lost` | MCQueueLost.cfg | | `NothingLost` fails with 1 worker |
| `hashmap_threads` | MCHashMap.cfg | 72,375 | 6 properties, 2 threads, 3 keys, 3 values, 2 slots |
| `hashmap_stale_get` | MCHashMapGet.cfg | | `GetAnswersItsKey` fails |
| `hashmap_lost_put` | MCHashMapPut.cfg | | `PutIsVisible` fails |
| `sfmm_heap` | MCSfmm.cfg | 174,846 | 4 properties, 2 pages of 12 rows, sizes 0, 2 and 9, blocks filled up to 0, 4 or 9 rows with the bit of `padded` set, memory of zeros, of anything, or with zeros all but at the pages' headers |
| `cream_two_workers` | MCCream.cfg | 406,637 | 6 properties, 2 workers, 4 connections, 2 descriptors, 2 keys, 3 values |
| `sfish_jobs` | MCSfish.cfg | 179,301 | 8 properties, 3 processes, 11 lines, 3 events |
| `utf_converters` | MCUtf.cfg | 2,199,740 | 5 properties, texts of up to 2 of 13 characters, up to 3 bytes missing, 15 lines of arguments, 2 runs |
| `ciphers` | MCCiphers.cfg | 837,785 | 4 properties, 94 argument lists, 4 texts and 783 of Morse, 5 contents of memory, there and back |
| `sfmm_clash` | MCSfmmClash.cfg | | `NoClash` fails |

Bounds, and why they are enough.

* Queue: two producers and a worker give every pairing of `enqueue` with
  `enqueue` and with `dequeue`; a list of three nodes has a first, a middle and a
  last; with four items over three nodes addresses are reused and `calloc` fails.
* Map: two slots and a hash that sends two keys to the last slot and one to the
  first give a full map, a collision, a probe that wraps round, a forced put over
  another key and a tombstone on the way to a key. Three values let a freed one
  return under another key. Three threads with two keys pass as well (366,000
  states); two are enough for each reader to meet a reader or a writer, and the
  proofs are for any number.
* Allocator: two pages of 12 rows hold up to six blocks. Free blocks of each of
  the three smaller lists and of the last occur (`ListMax` 4, 6, 10); size 2 gives
  the smallest block, 9 an odd size that needs padding and more than half a
  page; the first fits are exact, split and whole. Pages of 16 rows with sizes 0,
  1, 2 and 5 and other list bounds pass as well.

* Cream: four connections over two descriptors make accept give a closed
  descriptor again while a worker is still busy with the other. Two keys and three values
  over two slots, with a hash that sends both keys to one of them, make the map
  full, forced and holed; the third value is a block that is freed and given again
  while another worker reads it. Once a block was overrun the first three connections
  are followed (`FewAfterOverrun`). Workers, nodes, keys and values are symmetric:
  no definition tells one of them from another (the run has no liveness property).
* Shell: three processes are a pipeline and the command after it, or three
  commands; with three events from outside (lines, keys, signals from elsewhere)
  a job is stopped and `fg` or `kill` takes it out while handlers stand three deep, a job
  behind the head is removed, and two handlers that are in `addJob` at once give their
  jobs one number (`crossed`). A job that is lost between the halves of
  `removeJob` (`torn`) needs a fourth event. The six invariants about the jobs
  hold with four as well (2,139,026 states, with one program, two in a pipeline, and a built-in
  behind a bar for lines), and their theorems are for any number; liveness takes too long there.
  The eleven lines have every redirection with every other one, one
  too many, a part without a program, a built-in and `exit` behind a bar, and one or two bars alone;
  two programs are enough for a reader that inherits, or not, what its writer had. What
  the children do by themselves (`Ends`) is not counted.
* Converters: the characters are the last of each width and the first of the next,
  the mark, two line ends, and the bounds of what is misread. Two characters show what
  the first leaves in the buffer for the second; three missing bytes cut a character
  of four anywhere; two runs are there and back. The old file, of seven bytes, is
  longer than what some texts become and shorter than others; the 15 lines of arguments reach
  each of the six ways a line can end (`Crash`, `Usage`, both of `Refuse`, and `Start`
  with one -e or two), and convert to each form onto a new file. `Start` is bound to two
  different files.
* Ciphers: the alphabet of `const.c` and a Morse table of one character for each length
  of code. The argument lists meet each check of `validargs` on both sides of its bound;
  the keys take the first and the last characters, repeat themselves, and leave exactly
  enough cells or one too few. The texts have characters of the first and last rows and
  columns; lines of four letters and spaces give each remainder of the symbols by three,
  and one of the letters has six. Memory is zero, or holds a dot, a separator, something
  else, or nothing that is zero up to the end of `space2`.

`CHECK_DEADLOCK FALSE` stands in all configurations: a program whose producers
have produced `MaxItems`, whose user has nothing more to say, or in which a fault
has ended the process, stops.

Fairness. `EachItemLeaves` assumes that a thread which can run does run (weak
fairness of the steps inside `enqueue` and of the worker loop); no producer has
to call `enqueue` again. `ReaderLeaves` assumes it of a reader inside `get`: it
waits only for `fields_lock`, which nobody holds for longer than a few
instructions while readers hold `write_lock` (`ReadersCanLeave` is what makes
weak fairness enough: nobody keeps `fields_lock` then). Writers and first
readers get no fairness, a mutex is not fair. `EverySignalServed` assumes
that the shell, which is one thread, goes on with its handlers and its loop when it
can (weak fairness of both together); neither the user nor a child has to do
anything. Cream has no liveness property: its workers wait for mutexes that are
not fair and for clients that may be silent.

## Proofs

`QueueProofs` holds for any numbers of producers, closers, nodes and items.

* `TypeCorrect`, `CloseFinal` for any number of workers: from `SafeInv`, which says
  who holds the mutex and that a thread inside does not see `invalid` change.
* `DeliveryOrder`, `FreedNeverRead`, `NothingStranded` assume `OneWorker`; they fail
  for two. None of the three is inductive. The invariant `IInv` describes the list
  by the *positions* at which its items were linked: the nodes from `front` to
  `rear` carry consecutive positions up to `linked` (`ListEnds`, `ListLinks`), the
  permits (semaphore plus a woken worker) are at least their number or there are
  none and the list is a single node already handed out (`PermitsFit`), what a
  thread has read of the semaphore still holds when it acts on it as far as it
  matters (`ReadsHold`), and what was delivered lies before the front
  (`DeliveredBefore`). Each action has a lemma for the list and one for the counts;
  `InvStep` puts them together.
* `OneWorkerIsFifo`: with one worker every step is one of `OneWorkerFifo` or a
  stutter. The sequence that the abstract queue keeps is what following the links
  from `front` gives; that this is the items in the order of their positions
  is shown by induction over the length of the list. `Induction` makes that possible:
  the library's induction theorems have an operator as a parameter and cannot be
  used, so induction is stated of sets of numbers (`NatSetInduction`), and that a
  function defined step by step exists (`FunctionBySteps`) is proved, from the
  well-foundedness of the inclusion of finite sets.
* `OnlyWhatWasMade`, for any number of workers: a node in use holds an item that
  somebody enqueued, and what is handed out is one.

`HashMapProofs` holds for any threads, keys, values, capacity and hash function.

* `ReadersAlwaysCanLeave`, `WritersExcluded`: `ReadersCanLeave` needs one more
  fact, `FirstReaderAlone`: a reader that waits for `write_lock` has `fields_lock`
  and no other reader is counted.
* `SizeIsRight`, `ValuesOwned`, `TypeCorrect`: `SlotsInUse` adds that a slot has a key
  exactly when it has a value. `put` does not look at tombstones when it counts,
  and this is right only because it keeps them. `PutSlotInTable` shows that the
  probe of a map that is not full ends at a slot (so lines 101-104 of hashmap.c
  are never taken): every slot is on the way of every probe (`ProbeReaches`), and
  among the slots where it may stop there is a first (`LeastSlot`).
* `TableIsShadowMap`: every step of the table is one of `ShadowMap` or a stutter. The
  copies of a key that `ShadowMap` keeps in a sequence are the slots where the key
  stands, in the order in which a probe for it meets them (`Nth`, `Below`: the n-th member
  of a set of numbers, and how many are below one). The argument needs `Reachable`: every
  slot a probe passes before it comes to its key has been written, because a tombstone
  keeps its key; so the search ends at the first copy (`LookupIsFirst`) and `put`
  either replaces it, or adds one before or behind the others (`PutIsFirst`), and
  counting the copies of all keys gives `size` and the tombstones.

`CreamProofs` holds for any workers, connections, descriptors, keys and values,
and without the constraint of the run: also when a connection is handed out twice.

* `MemorySafe`: `MemoryInv` says that the map holds only blocks `malloc` has given and
  not got back, that the block a worker fills for a `PUT` is one of them and not in
  the map, and that no two workers fill the same one. It needs `AtItsHandler`: a
  worker in the handler of an operation has read a request for that operation, so
  `PutStores` hands over the block of a `PUT` and nothing else.
* `ServerUsesMap`: by it, a `PUT` hands the map a value the map does not hold, so
  every step of the server is a step of `H!Next` or leaves the map alone. The
  server therefore has, by instantiation, every property that
  `HashMapProofs` proves of the map. `ServerUsesQueue` says the same of the queue.
* `DescriptorsOwned`, `AnsweredOnce`: `ConnInv` says that a connection the queue still
  has to hand out is open and unanswered, that what a worker serves is open under
  its descriptor and has been answered just when it is past the header, and
  that what is done has been answered. They have the condition `EachHandedOutOnce`,
  which two workers can break; `OneWorkerServer` shows, from `DeliveryOrder`, that one
  worker never does, so for one worker they hold without it.
* `RefusalNeedsRace`: by `RaceInv` a map that a worker saw not full is not full when it
  puts, unless another one wrote it.
* `GetIsRight` holds until `overrun`: up to there a step writes only to blocks it was just
  given (`BlocksKept`). `GetInv` follows an undisturbed `GET` from the search to the last byte
  (what it found is still in its slot, with the bytes of its key), and
  `LatestInv` follows the last `PUT` of a key in the table. The second needs that nothing
  is evicted: a key then has one slot, and no probe has a hole on its way.

`SfmmProofs` holds for pages of any even size, any number of them, any bounds of the
lists, any sizes the client asks for, any number of rows it writes with any bit of
`padded` in them, and any rows of zeros in the memory at first. All of it is said of a heap in which nothing has
slipped but "dropped" (a block forgotten by its list); behind the other four slips the
properties are false.

* `HeapInOrder` is the invariant `IInv`. It cannot be stated with the walks of the
  properties, which say nothing until the heap is known to be in order, so it is about rows:
  there is a set of blocks that tiles the heap (`Tiled`), the free ones are
  linked both ways, each to blocks of its class, nowhere in a circle, and a list
  begins with one that no other leads to (`Linked`); the client holds the allocated ones, and
  each has the request and the data the client knows of (`Known`). The lists need
  `Acyclic` because nothing in the links alone keeps a search from going round. It also
  says that what has slipped is never forgotten (`Later`), in whatever state the heap is, so
  that a heap in order after a call was in order before it.
* An operator of the library is followed in two respects. It leaves a heap in order
  `Ordered`, and it does to the allocated blocks what its caller was promised
  (`Served`: those gone, those new, and all others row for row as they were), which is what
  one call after another is put together from (`ServedThen`).
  `FreeOrdered`, `TakeOrdered` and `SplitOrdered`, `InitPageOrdered`, `ShrinkOrdered` and
  `MoveOrdered` are the parts, `MallocOrdered` and `ReallocOrdered` the calls. Rows, links and
  tiling are kept apart below them: `Unlink`, `Push` and `Coalesce` are
  about links (`Strung`), `WriteTags` about tags (`Retagged`, `Cut`, `Swallows`).
* That a search ends with a block or with Null is `SearchFinds`: as many steps as there can be
  blocks, without an end, would visit one twice (`FewBlocks`, by counting), which is a
  circle (`ChainEnds`). `ProvideGrows` does the same for the pages that are added.
* `BlocksTileHeap`, `FreeListsAreRight`, `HeldBlocksAreSafe`, `HeapTyped`: in a heap in
  order the walk over the headers finds the blocks (`BlocksFound`), and the walk over a list
  goes from its head to its last block (`ListFound`), so the invariant says what
  the properties say. `HeapTyped` has the condition on the slips, which `TypeOK` as
  TLC checks it has not.

`UtfProofs` holds for any files, texts of any length, every scalar value and any
contents of the buffer.

* `EncodesUtf8`, `EncodesUtf16`: the bytes made for a scalar value denote it.
  `DecodesUtf8` is the converse: bytes that denote one are read as it, and the first of
  them tells how many there are.
* `CharactersKept`: a turn that finds the bytes of a character at its place passes over
  exactly those and writes the same character. `FromUtf8Turn` and `ToUtf8Turn` follow
  the reads into the buffer (`FilledWhole`: what is not cut short does not depend on
  what was there) and end in the lemmas above. From UTF-16 the character must be
  `Spared`: no mark, no line end, not misread.
* `ConvertsExactly` puts the turns together. `FileInv` says that the file is the one the user
  has and `from` its form, and `ProgressInv` that there is a number `k` of characters
  such that the program has written the rendering of the first `k` and stands behind them
  (`Behind`), between the units of the next (`Within`), or at the end of a file that is
  cut off within the next (`CutOff`). Where a character begins, and what is kept of a text, are
  functions by recursion over it: `OffsetSteps`, `KeptSteps` and the lemmas on what grows with a text
  (`SpellsGrows`, `NoMarksGrows`, `PrefixGrows`) come by `FunctionBySteps` and `NatSetInduction`.
  Each loop has a lemma on the whole turn and one on the turn that is cut short.
* `OutputIsComplete`: `Unended`, a part of `Progress`, says that no line end was passed;
  `EndsBehindAll` and `EndsAtLineEnd` are the two ways a conversion ends, and `DiskInv` says
  that until then the output file holds what it did.
* `ArgsMeant`, for lines of any length: `ArgsInv` says that between two arguments there is a
  number `p` of words such that the variables hold what the first `p` words mean (`Read`) and
  `args` is the rest. `FlagSteps` turns the count of options in a row, by which `IsFlag` is
  defined, into a step from one word to the next, `NamesSteps` that of the names, and `LineRead`
  says that a line read to its end is what the definitions for whole lines make of it.
* `ComesBack`: nothing is told the second run but the names of its files, so `MarkInv` says
  that what is read and what is written begins with the first byte of its mark, by which
  the three forms differ (`TellsOne`). `MiddleInv` says between the runs that the file in
  between begins with `Middle`, what the first run leaves of the text, behind which a file
  that was longer has its old end. `BackInv` says of the run back that it has
  read and written the first `k` characters of `Middle` (`Passed`), or all of it and some of
  that end (`Beyond`), where the bytes need not be characters and whatever is made of them
  stands behind the text. `Middle` has no character but marks and those of the file, so none of
  it is misread or ends the run early (`MiddleSpared`), and its marks are what the two cases
  of `Returned` are about.
* `TypeCorrect`: a lemma for each helper says that bytes come of it.

`SfishProofs` holds for any number of processes and any lines.

* `TypeCorrect`: `TInv` adds to the types that a current job has a process
  (`CurrentKnown`), that there is a newest child where the loop works on one, that
  `jobNum` was set before a job was listed or a handler reads it, and that the job
  `removeJob` has found is still in the list when it is unlinked, and in what a handler is
  about to make the list (`JobNoted`). `FramesBegun`: no handler is anywhere in its code
  unless it has a frame.
* `NoChangeOverlooked`, `NoWakeUpLost`: `ChildWatched` says that from `fork` until
  sigsuspend the signals are blocked and no handler has a frame, so if the child has
  changed SIGCHLD is pending.
* `ReadersSeeTheEnd`: `PInv` says that the shell can write to no pipe but that of the
  child it has just forked, a child only to its own, and that a process still to come
  names no pipe: pids are not given twice.
* `NumbersStayDistinct`: a step of `addJob` is one of the innermost handler
  (`HeadIsInnermost`). As long as nothing is `crossed`, the list is as it should be whenever no
  handler is about to replace it (`NumbersListed`), and what a handler has read of it and of
  `jobNum` is good for a list as soon as no handler it has interrupted is at work
  (`NumbersHeld`); if one is, that one will replace the list again. One handler at
  most has listed a job and not counted it (`CountedOnce`), and a handler that has found
  the list empty has interrupted only such as found it empty too (`FirstAlone`), so they
  begin with the same 1. What `removeJob` leaves is jobs of the list (`LeavingOut`), or
  what followed the head when it was found (`NumbersNoted`).
* `NoStoppedJobLost`: the stop of the current job's process is `Settled` when the handler
  has seen it and done its part, and then the job is in the list. This is not inductive,
  since `fg` and `kill` take a job out in three steps and the process may stop in between. While
  they are `Removing` the current job a stopped one is in the list *twice*
  (`SettledListed`): once because it was in the list before, which `RemovedOnce` says of a process
  that is still alive, and once because the handler has put it there. `ForkUnseen` is what a child
  that stops before it becomes the current job needs, and `NotedIsOfPid` says, unless `torn`,
  that removing the head removes no more than that. A handler about to replace the list
  has the job in its copy too (`HeldBehind`).
* `LinesMeant`, for lines of any length: `MInv` says that the programs are those of the line
  until one of them is run, so the rest is about `Programify`. `Parts`, `Words` and `Parsers`
  are functions by recursion over the line (`PartsType`, `WordsType`, `ParsersSteps`, by
  `FunctionBySteps`). What the parser knows behind one sign, two and three is `Behind`, a
  step from one word to the next (`BehindAll`); three of them leave a part that
  is refused (`TooManySigns`). A part that is as it should be has `n` words, then at most two
  signs, each with a file (`FirstSign`, `RegularForm`), and the parser is followed through it:
  `ParsedFirst` for the `n` words, `ParsedFile` for a sign and its file.

`CiphersProofs` holds for any alphabets, argument lists and texts.

* `TypeCorrect`: a run that works has been given sides of 9 to 15 (`ArgsGiven`), and the
  bits of its mode are read back as what they were made of.
* `TableComplete`: `TableGrows` says that the table begins with the key and has nothing
  but letters, `AllInTable` that, unless the key repeats itself, none of them is there
  twice and every letter gone through has a cell. That a cell is free whenever one is
  needed is a matter of counting: a full table without repetitions is the whole alphabet
  already (`DistinctFills`).
* `SearchStays`: by `AllInTable` every character of the text is in the table when the
  text is read. `CoordinatesComeBack`: the two coordinates of a cell up to column 9 are its
  row and column, and lead back to it.
* `PolybiusComesBack`: `ThereAndBack` relates the two runs without any recursion over the
  text. `Coded` says that there are offsets, one for every character, at which its part of the
  code begins; the first run adds one with every character it reads (`CodedGrows`), the
  second is between two of them or in the middle of a pair (`Reads`), and has written as
  many characters as it has passed offsets. The second run starts with its own arguments and
  an empty table: validargs reads -e and -d only to tell them apart (`SameButDecode`), so it
  has the same key and sides, and by `FillsAlike` the loop over the alphabet has only one
  outcome, so both tables are the same. That a pair is never read from its middle rests on
  no sign of the code being a blank (`SignsShow`).
* `MorseComesBack` has the condition that `tail` is empty, and is about `LegibleLine`, the line
  with a space for what `dirty` makes illegible. The two runs are related by a sequence `s` of symbols, those of what is
  kept of the line (`Spells`; `Ends` says where each character of it ends, `Tidy` what is kept:
  letters, with single spaces between them). The first run has written the letters of the first
  symbols and has less than three of them in `buffer` (`Sending`, `Written`), the second
  stands behind the `p`-th symbol, between two characters or within one (`Decoding`). No
  letter is looked up for three separators, which has none, since a space follows a letter and
  every letter has a symbol (`NoThree`). At the newline the separator of the line is one symbol
  more (`EncodedBy`), and where the second run stands when `p` is the last multiple of three
  gives the three cases (`LineComesBack`). `CiphersAssumption` says for it what holds of
  `const.c`: 26 letters, one for every three symbols but three separators, none
  of them a newline, and no two characters of the table with one code.

Assumptions: `AlphabetAssumption`, `CiphersAssumption`, `QueueAssumption` (among others, memory
is finite), `HashMapAssumption`, `CreamAssumption`, `PartsAssumption` (the two before, of the server's parts),
`SfmmAssumption`, `SfishAssumption`, `UtfAssumption` and `FilesAssumption` (that the files are spelled
as they say), in the modules they are about; TLC evaluates them all.

Model-checked only: all liveness (the prover does no reasoning about fairness) and
`TypeOK` of the allocator behind the slips, where a header may be what an earlier block
left behind, so there is no order to reason from. Every other invariant of the passing runs
is stated by a theorem.

## Not modelled

EINVAL for NULL arguments of the queue and the map, EINVAL against ENOMEM in the
allocator, the failure of `create_*`, and the command line of cream are left out.
Of the shell, a failing `fork`, the directories of `cd` and
`pwd`, the prompt, and what a child does with its redirections before `exec` are not
modelled: nothing of it comes back to the loop, except that a child may end, which it may
in the model at any time. Nor is the heap: `addJob` calls `malloc` in a handler that may
have interrupted `malloc` in the loop, or in another handler. At the end of its input the shell goes round its loop
for ever, which changes nothing that is modelled. The capacity of a pipe is not modelled:
the shell waits for a program before it forks the one that reads from it, so a
program that fills its pipe waits for ever; in the model it is one that does not end. Of
the converters, failing and short writes are not, nor -e joined to its argument, nor a
file converted onto itself, which is overwritten before it is read and may grow without
end. `csapp.c` is a vendored
library; what it adds to cream is `IOError`. `extracredit.c` and hw0 have no state.
