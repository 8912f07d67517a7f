# BearLang: models, checks and proofs

BearLang is a small Lisp: a runtime library in C (`src/runtime/src`), an interpreter with a
prompt (`src/bli`), the beginnings of a compiler (`src/blc`), and a standard library of C and
BearLang modules (`src/stdlib`), one of which, simpleweb, serves HTTP and websockets through
a copy of mongoose (`src/stdlib/simpleweb/src/mongoose.c`) that is compiled into it.  This
directory holds TLA+ models of them, the TLC configurations that check the models on small
instances, and TLAPS proofs of what can be proved for every instance.  `PROJECT.json` lists
components, runs, findings, hazards and theorems in machine-readable form and maps every
definition to source lines.

## 1. The system

Everything in the language is a value, `bl_val_t`: numbers, strings, symbols, cons cells,
contexts, functions, operators, native operators, errors.  The interpreter has one thread.
What makes it hard is sharing: values are passed by pointer and some are changed in place; all
activations of a function share one context; contexts are arrays that are reallocated while
others walk over them; and an error is an ordinary value that every caller has to look for.
The web server has one thread too, but many connections, whose other ends send pieces of any
size and vanish at any moment, and handlers that close, open and link connections while the
loop that called them walks their list.

| component | state | operations | who uses it |
|---|---|---|---|
| symbol interning (`utils.c`, `uthash.h`) | hash table, next id | `bl_mk_symbol` | parser, contexts, operators |
| value pool (`utils.c`) | current pool, index | `bl_mk_val` | everything |
| contexts (`ctx.c`) | keys and vals arrays, parent, `write_to_parent` | `bl_ctx_new`, `bl_ctx_get`, `bl_ctx_set` | evaluator, operators, import, prompt |
| evaluator (`eval.c`) | the C stack, contexts of functions | `bl_eval`, `bl_eval_cons`, `bl_eval_if`, `bl_eval_funcbody`, `bl_set_params` | prompt, operators, import |
| operators (`builtins.c`), checks (`error_tools.c`) | none of their own | `bl_oper_*`, called by `bl_eval` with unevaluated arguments, calling it in turn | programs |
| lists (`list_ops.c`) | cons cells | `bl_list_*` | everything |
| modules (`builtins.c`, `utils.c`) | contexts of modules, `*FILENAME*`, `*PATH*` | `bl_oper_import`, `bl_oper_using`, `bl_oper_include`, `bl_eval_file` | programs, recursively |
| reader and printer (`lexer.l`, `sexp.c`), strings (`string_ops.c`) | none | `bl_parse_*`, `bl_ser_sexp`, `split_str`, `str_replace` ... | prompt, import, print, compiler |
| compiler (`blc/src/main.c`) | the output file | `compile_file` | the user |
| prompt (`bli/src/main.c`) | one context inside the standard one | read, evaluate, print; hints | the user |
| stdio, xml (`stdlib`) | open streams, errno | `fopen` ... `pclose`; elements | programs |
| web server (`simpleweb.c`, mongoose) | list of connections, buffers, protocol state | `serve`; `mg_mgr_poll`, `mg_http_handler`, `mg_ws_handler` | clients |
| file server, resolver, SOCKS (mongoose) | transfers, partners, requests, links | `mg_serve_http`, `mg_connect_opt`, `mg_resolve_async_eh`, `socks_*` | programs that use the library |

How they interact.  The prompt hands one form after the other to `bl_eval`, which looks
symbols up with `bl_ctx_get`, calls native operators with the unevaluated rest of the list,
and evaluates bodies of functions (in the one `inner_closure` made when the function was
defined) and of operators (in a fresh context whose assignments go to its parent).
Operators call `bl_eval` back.  `import` evaluates a whole file in a new context and binds
that context to a name; `a::x` makes `bl_ctx_get` go through such bindings.  `serve` never
returns: mongoose's loop calls the protocol handlers, which call the handler of simpleweb,
which calls `bl_eval` with the function the program gave.

Hard behaviours, and the properties that make each component correct:

* **Symbols and pool.**  Ids are array indices and symbols are compared by address, so one name
  must give one symbol (`InternedOnce`, `ImplementsSymbols`), while the table grows
  (`BoundedChains`) and the pool runs out between the two values a symbol needs
  (`EachCellOnce`).  The pool's index is advanced before it is used (`OnlyLastOutside`).
* **Contexts.**  Arrays of different lengths, grown at the boundary, copied while
  `(using m::*)` walks over them (`UsingCopies`), redirected one level up for operators.
  All of it together has to be a nested scope (`ImplementsScopes`, `AssignmentSeen`), and
  walks must end (`CallsReturn`).
* **Evaluator and operators.**  Parameters and closures stay where they belong, operators reach
  out (`FramesApart`); calls that wait, tail calls, calls with too few arguments, `foreach` and
  `map` see the bindings that the code defines (`CallsBindAsWritten`); errors stop what they
  should and reach the right handler (`ErrorsHandled`); functions do not write outside
  (`FunctionsKeepOut`); the prompt comes back (`EveryFormEnds`).
* **Lists.**  `append` changes a chain that others share: `ListsAsBuilt`, `OthersKeepPrefix`,
  `LoopsEnd`.
* **Modules.**  A file evaluated by an import imports others, may fail half way, and looks
  names up through the context that waits for it: `OnlyFinishedModules`, `WaitingUntouched`,
  `ImportEnds`.
* **Texts.**  What is printed is read back, up to the parenthesis that closes too much
  (`FormsReadBack`); what is compiled has every value in its place (`CompiledInOrder`);
  splitting, joining, escaping, streams and hints keep their text (`TextsInOrder`); digests see
  all of a message however it is cut (`HashSeesMessage`); codecs and packets are read as
  they were written (`RoundTrips`); paths and buffers stay inside (`StaysInside`); uploads
  keep their parts (`PartsAsSent`).
* **Web server.**  `LoopStaysInList`, `RequestsInOrder`, `FramesAsSent`, `NobodyWaits`.
* **File server.**  `FilesAsSent`, `NothingDangles`, `OnlyAuthorized`, `TransferEnds`.
* **Outgoing connections.**  `ResolverKnowsItsOwn`, `EventsInOrder`, `ResolvingEnds`.
* **SOCKS.**  `TunnelHolds`, `TunnelSettles`.

## 2. The modules

| module | models | extends / composes |
|---|---|---|
| `SymbolNames`, `Symbols` | the abstract table of symbols: what `bl_mk_symbol` promises | |
| `Pool` | `bl_alloc_vals` as called by `bl_mk_val` | |
| `Interning` | `bl_mk_symbol` with uthash's buckets | composes `Pool`, implements `Symbols` |
| `Scopes` | abstract: what contexts promise | |
| `Contexts` | `ctx.c`, the switch of `eval.c`, the loop of `(using m::*)` | implements `Scopes` |
| `Eval` | `eval.c` | rests on scopes as `Scopes` has them |
| `Builtins` | 35 native operators, the prompt | extends `Eval` |
| `Lists` | `list_ops.c` and the list operators | |
| `Import` | import, using, include, `bl_eval_file` | rests on scopes |
| `Reader`, `Strings`, `Stdio` | `sexp.c`, `blc`; `string_ops.c`, xml, the hooks of `bli`; `stdio.c` | pure operators |
| `Codecs`, `Uris`, `Packets`, `Uploads` | mongoose: bytes, paths, DNS, MQTT and CoAP, multipart | pure operators |
| `Text` | one call of one of these, and what it must return | extends the seven above |
| `Websocket`, `Http`, `Web` | frames; requests; the manager, `serve`, the clients | each extends the one before |
| `Site`, `Files` | what a request is answered with; transfers, CGI, proxy, WebDAV | `Files` extends `Site` |
| `Client` | `mg_connect_opt`, the resolver, timers, `mg_mgr_free` | |
| `Tunnel` | the SOCKS client and the SOCKS server | |
| `MC...` | the instances TLC checks | each extends its module |
| `InterningProofs`, `ContextsProofs`, `ImportProofs`, `ListsProofs`, `WebProofs`, `FilesProofs`, `ClientProofs`, `TunnelProofs` | theorems (section 4) | each extends its module |

**Symbols, Interning.**  `Symbols` has a set of entries, `Key[n]` being what `symobj->key` holds of
name `n`; entries with equal keys share a bucket, so any may be found.  `Interning` has the buckets:
`HASH_FIND`, `HASH_ADD`, `HASH_EXPAND_BUCKETS` with its ideal chain length and its
inhibition, and takes two cells of `Pool` for a new symbol.  The refinement forgets buckets.

**Pool.**  `UsedUp` and `NewPool` are the test and the replacement of the pool.  Cells are
numbered by pool and index.

**Contexts.**  An array is a function on its allocated indices, so a stray access has no
value.  `bl_ctx_new`, `bl_ctx_set` and `WriteToParent` (the switch that `bl_eval` throws for an
operator's frame) are one step each; `bl_ctx_get` takes one step for each recursive call,
`(using m::*)` one for each slot.  Values in `Wild` (functions, errors) read as anything when
taken for a context.  The `ctx_get` callbacks of the py27 and xml modules are left out.
`Scopes` has neither arrays nor walks: `Visible` is the innermost binding.

**Eval and Builtins.**  A machine: `ctl` is what runs now, `stack` has one frame for each C
activation that waits for a `bl_eval` to return.  Each `Eval...` action is a case of the switch
in `bl_eval`, each `Ret...` action the code after such a call.  Numbers are cells, because `inc`
and `dec` change them in place under all names; literals in the source are cells too.
`Faults` lists the accesses through pointers to nothing that occur; `Crash` ends the
process.  A call of a native operator without arguments writes to the shared null value, which
the model does not follow: no property reads it.

**Lists.**  `car` and `cdr` of cells, cell 0 being the one `None`.  The operators that loop
take a step for each cell.  A `foreach` has any of the other expressions as its body, evaluated
once for every cell, and looks for the next cell when the body is done.  With no cells left the
body is skipped, so that the loop itself is what ends or does not.

**Import.**  `stack` has one frame for each file being evaluated.  A statement of a file is
what it does to names.  The directory of the importing module is searched first, but the string
with its name is freed before it is used (`builtins.c:679`), so both searches are possible.  A
value that is no context reads as an empty one in a qualified name; an error does not, and the
step crashes.  Names bound to strings and imports made inside an operator are outside the model.

**Text.**  A behaviour is one call: `job` is chosen from `Jobs`, `out` is what the code
returns.  The operators are written after the code, loop for loop where the loop is what could
be wrong; the properties compare them with short definitions of what is meant.  Texts are
sequences of characters or bytes where the property is about them, else tokens.  Flags that
the code does not initialise (`unescape`, `fprintf`) are parameters, and the jobs have
both values.  Undefined use of a stream sets `wild` in `Stdio`.

**Web.**  A poll is `Select`, a step for each connection of the list, a sweep that closes.
`Http` and `Websocket` are functions of a connection's state, because an event runs to its
end; what is sent arrives in pieces of every length up to `RecvSize`.  A unit stands for a run of
bytes that no cut inside tells apart from a cut before it.

**Files.**  Requests arrive whole (their pieces are `Http`'s).  `Site` says which of
`mg_serve_http`'s ways a request goes, from options, files and credentials; `Files` has the
connection, up to two partners (CGI process or backend) and the steps in which a file is read,
sent, written or cut.  A page with SSI directives is sent in one go and is one unit, `UntilClose`
marks an answer whose head has no length, `NoLength` a request without one.  A client is eager (it
pipelines) or waits for each answer.

**Client.**  Queries and answers are datagrams: lost, late, doubled.  Time is the time since a
query and until a timer; `Tick` advances both.  **Tunnel.**  `s`, `p` and `t` are the
sockets, `data` the `socksdata` of the interface; a use after it was freed sets `wild`.  The
addresses of the proxy and of a request are ones that `mg_connect` can use: of another it returns
a null pointer, which both ends write through (`mongoose.c:4097`, `12665`).

simpleweb itself does not call `mg_serve_http`; and WebDAV, CoAP, SOCKS, MQTT and streaming
multipart are compiled in only with their `MG_ENABLE_` switch, while CGI, SSI, listings and
rewrites are on for unix.  The models are of the code with these parts compiled in.

## 3. The runs

| run | bounds | shows |
|---|---|---|
| `interning` | 6 names, two cut to a third, two with equal hashes; 5 symbols; a table of 1 bucket; pools of 3 | the hash table implements the set of symbols while it grows; no cell is handed out twice |
| `contexts` | 3 contexts; ids 0 to 3: a qualified name, a variable, a module, a quoted symbol; arrays start with 1 entry and grow by 1 | arrays implement scopes; lookups and copies end |
| `session` | 4 of 15 and 4 of 13 forms about calls and errors, 3 of 23 forms about operators, in any order | functions, operators, recursion, closures, loops, errors do not disturb each other |
| `import` | 4 of 16 statements in any order; 6 files, at most 12 contexts | names stand for complete modules; importers are left alone; imports end |
| `lists` | 2 variables, 8 cells, 4 expressions, a `foreach` and its body being two of them | chains have an end, others' lists only grow, loops end |
| `web` | 2 clients, 11 scripts (plain, posted, chunked, pipelined, garbled, endless, websocket), reads of up to 4 units | requests and frames are handed over once, whole and in order; nobody waits |
| `text` | some 150 000 calls: texts up to 5 characters, blocks of 5 bytes, every cut of every packet and upload | reader, printer, compiler, strings, streams, codecs, paths, packets and uploads do what they are for |
| `client` | a connection by name, one by address; 1 retry, 1 timer, 1 answer waiting | no pointer dangles, events come in order, resolving ends |
| `files` | 39 requests, alone and in 20 pairs and triples, eager or not; 2 partners; pieces of 2 units; one file cut once | files arrive as asked, partners come and go, passwords hold |
| `tunnel` | 4 greetings, 4 requests, 2 units one way and 1 the other | what either end writes arrives in order, or the tunnel ends, and then all of it is closed |
| `try_call`, `import_twice` | 2 forms; 2 imports | violated: see the findings |

Why the bounds are enough.  *interning*: doubling happens twice, once in vain, and pools run out
before, between and after the two cells of a symbol.  *contexts*: three contexts are a scope, an
operator's frame in it and a module; the ids cover the cases before, at and past the end of an
array for each array length that occurs; `Wild` is empty in the run, and the proofs cover it.
*session*: definitions, calls before and after them, redefinitions and errors in between need
three or four forms; `MaxStack` and `MaxCells` are not reached.  *import*: modules nest three
deep (c imports a, which imports b), one is found in two places, one fails at its end, one is a
library and one a broken library.  *lists*: four expressions build a list, share it, and change it
through either name.  *web*: a buffer of 4 units is shorter than every script but the shortest,
so each is cut everywhere.  *text*: 5 characters hold a separator twice, a block of 5 bytes with
a length of 2 is filled, passed and just missed.  *client*: the retry and the timeout race each
answer; a second connection puts the loop's cursor on either side of the resolver.  *files*:
3 units of a file need two pieces.  *tunnel*: two units may be cut between, before and after
the handshake.

Deadlock is switched off where the system may stop: a session ends because nothing is left to
type or the process is gone, clients stop sending, a call of `Text` is over.

Fairness.  One thread runs the interpreter, and nothing it waits for is outside it:
`WF_vars(Step)` in `Builtins` and `Import`, weak fairness of the loops and of the body of a
`foreach` in `Lists`, and of the call in progress in `Contexts`.  Typing a form is never required.  `serve` polls for ever, so the
steps of a poll are weakly fair in `Web`, `Client`, `Files` and `Tunnel` (there a connection that
was told to close is closed, the application's too, but nobody needs to ask for it); in `Web` what a
client has begun to send arrives, in `Files` a client that is there reads, and in `Client`
nothing is assumed of the network, only that time goes on.  A client that neither reads nor
goes is left out of `NobodyWaits`: mongoose has no timeout for it.
`ImportEnds` is checked for sources that do not import each other in a circle: a circle never
ends, since an unfinished module is not found and is loaded again.  `EveryFormEnds` leaves
out the one form that is an endless loop on purpose, `TransferEnds` the files cut while
they are sent, for which the code waits for ever, and `LoopsEnd` a `foreach` that has come to a
cell its own body appended.  `TunnelSettles` says nothing of a client that has used the freed
`socksdata`.

### Findings

PROJECT.json quotes both sides of each.  The first two are the property of one run that TLC
shows violated.  The others are met on the way: the properties named leave the case out, in
so many words, and the model has it.

1. `try_call`: an error in the arguments of a call ends the process, inside `try` as well.
2. `import_twice`: "already imported" holds only within sight of the context that imported.
3. `session`, `CallsBindAsWritten`: `map` returns a result for every expression of the function's
   body, not for every item (`builtins.c:229`, against `builtins.inc:58`).
4. `session`, `FunctionsKeepOut`: parameters are not copies (`eval.c:24`, against `eval.c:16`):
   `inc` of a parameter changes the number the caller's variable stands for.
5. `text`, `TextsInOrder`: `fprintf` without an argument for `%s` ends the process
   (`sexp.c:237`, against `stdio.c:141`, which promises `(null)`).
6. `text`, `StaysInside`: a `?` fits a slash (`mongoose.c:2109`, against `mongoose.h:2221`).

### What the models show besides

The properties above are stated so that they hold of the code as it is.  Where a precondition
was needed, the case it leaves out is a behaviour that a reader of the code should know:

* Names of 32 characters or more are never found again in the symbol table (`utils.c:73`).
* All closures of a function, and all its calls, share one context: a closure sees the parameters
  of the latest call, not of the one it was made in (`eval.c:177`).  A tail call inside an `if` waits for itself; a
  `(finally SOME_EXPR)` clause, as `builtins.c:149` has it, is a parse error.
* `(foreach i x (append x 1))` never ends: the next cell is looked for after the body
  (`builtins.c:105`).
* `append` to `None` changes the one null value (`list_ops.c:60-66`), and a literal list in the
  source is changed by an append to what it was bound to; `(append L L)` makes a list of
  itself, which cannot be printed.
* `(% a 0)`, `(first x)` of an unbound name, `second` and `third` of a number or a symbol
  and `filtered` of a number end the process; a number or an error as the condition of `while`
  is read as whatever byte it has there; `eq` of
  any two symbols is true (`builtins.c:525`).
* A stray `)` ends the reading of a file without an error (`sexp.c:30`); `do`, `while` and
  docstrings print as nothing; the compiler leaves the call for a number open
  (`blc/src/main.c:57`) and ends on an empty file (`155`).
* `str_replace` forgets an instance at the end of the text; `split_str` by an empty text never
  ends; `fgets` always asks for no bytes (`stdio.c:214`); `popen` and `pclose` check nothing.
* A second chunked request on one connection meets an assertion (`mongoose.c:5963`); a request
  whose body never came complete is handed over when its connection closes (`6117`); a client
  that upgrades while an answer is unsent gets no 101.
* A rewrite whose pattern ends inside a component is skipped but leaves the start of the file
  name moved (`7706`); the error branch of the CoAP handler is never taken (`12262`).
* An empty datagram hands a freed buffer on (`3576-3592`); an answer is not compared with
  the transaction id of the query.
* A second request during a transfer overwrites `pd->file`; a closing proxy connection flags
  itself and not its partner (`5607`), against the comment above it.
* The SOCKS server answers success before it is connected (`12664`), and a SOCKS interface that
  is freed leaves its socket with the freed `socksdata`.

## 4. The proofs

Checked by TLAPS, for all values of the constants under the assumptions named in the modules.

* **InterningProofs.**  Of the pool, for every size: `EachCellOnceHolds`, `OnlyLastOutsideHolds`;
  `PoolInv` says which cells are out, all of the earlier pools and those up to the index of this
  one.  Of the hash table, for every hash function, number of buckets and threshold:
  `ImplementsSymbolsHolds`, `InternedOnceHolds`, `BoundedChainsHolds`; `CellsFromPool` says that
  the pool is used as `Pool` has it.  `InternInv` says that each entry is in the bucket its
  hash selects, that `num_items` counts the entries, that symbols are different cells of the
  pool, and `SymInv` of the table as a set (`TableInvHolds`, `UniqueIdsHolds`): ids stay below the
  counter, an entry's key is its cut name, every answer given still has its entry, and a private
  key is entered once, for any way of cutting names that is idempotent (`KeyAssumption`).  Lookups and the refinement need the first: a doubling
  keeps it (`ChainIsMoved`, `AllMoved` follow the two loops) and leaves the set of entries as it
  is.  `BoundedChains` needs a sum: while doubling helps, the multipliers of all buckets add up to
  no more than the number of buckets (`Evened`).  So the limits of all buckets add up to at
  most twice the threshold for each, the next ideal length stays at most the
  threshold, and no bucket comes out of a doubling over its limit.
* **ContextsProofs.**  `TypeOKHolds` (no access out of bounds), `KeysMatchHolds`,
  `UsingCopiesHolds`, `AssignmentSeenHolds` and `ContextsImplementScopes`, for any number of
  contexts, symbols, values (wild ones included) and array sizes.  `CtxInv` adds to the types: a parent is older
  than its children (so the walk goes down in number and the youngest holder is the innermost),
  nothing is stored for contexts not yet made, and while a lookup walks, what it has
  passed does not bind the name (`WalkOK`).  The refinement maps `bind` to the slots of the
  arrays, a slot past the end reading as unbound; each step of the walk is a stutter until
  it hits, and the hit is the answer because of `WalkOK`.  An assignment is seen because the
  context it is stored in is the youngest of those in sight that bind the name: the one it
  is made in, or the next one, when that one does not bind the name.
* **ImportProofs.**  `OnlyFinishedModulesHolds` and `WaitingUntouchedHolds`, for all sources,
  cyclic ones included.  `ImpInv` adds `StackOK`: frames are ordered by age, and neither the
  contexts being filled nor those that wait are complete.  A step writes to the running
  context, which is younger than all that wait, or, for `(import a::b::c)`, to a module that a
  name stands for, which is complete, while what waits is not.

* **ClientProofs.**  `ResolverKnowsItsOwnHolds`, `EventsInOrderHolds`, for any number of
  connections, with and without a name to resolve, any number of retries and any times.
  `ClientInv` is a statement about each connection and its resolver (`Good`): which of the two
  is in the list in each state of the other, what the request points to, and how much of its
  story the connection has been told.  It adds that the list has nothing twice and
  the cursor in it, and that nothing is before the cursor when everything is freed, since
  taking a connection out must not leave the loop at it.
* **WebProofs.**  `LoopStaysInListHolds`, `ReadyAheadHolds`, for any clients, scripts, limits
  of requests and sizes of reads, under `ScriptsAssumption`: what is sent is made of units whose
  lengths are numbers.  `WebInv` adds to the list what joins it to the clients
  (`ConnectedListed`: an accepted socket is not in the list before), that nothing is listed before
  `serve` listens, and that the buffers are what the handlers may index (`Buffered`), without which
  a handler that fails could not be shown to end in one of the two ways the loop knows.
* **TunnelProofs.**  `TunnelHoldsHolds`, for any greeting, request, address, text in either
  direction and any cutting of them.  `TunnelInv` lays what is read, under way and not yet sent of
  each stream in a row (`InRow`): pieces of the stream, one behind the other.  The client's
  stream is greeting, request and payload; how much of it the server has taken is told by the
  flags of its connection, where it ends by those of the client's.  The flags are why the order of
  the bytes alone is not inductive: a state in which a connection relays but its handshake still
  lies in a buffer would carry the handshake to the target.  Once the freed `socksdata` has been
  used (`wild`), only what the client already read is claimed.

* **FilesProofs.**  `NothingDanglesHolds` and `FilesAsSentHolds` (`RangeAsAsked` and
  `PutStored`), for any site, requests, scripts, number of partners and sizes of pieces, under
  `FilesAssumption`: marks are no inodes, ranges and lengths are numbers, a request bears its own
  name, and the first file system is one.  All of it is claimed of a client that waits for each answer, and nothing of it is inductive:
  why a file stays in one piece is that nobody answers while it is sent, and that rests on
  what a waiting client takes for a whole answer.  `FilesInv` speaks of `Stream`, what the client
  has got and what the server still has to send, in one piece.  `RangesOK` says of each file in it
  what the property says; `FileSent` that the open file is the one the last head announced, sent as
  far as it stands there, so that the next piece goes on where it should; `Waiting` that a request
  that is under way or in the buffer is the only one without an answer and that what came before is
  `Done`, so no second answer starts in the middle; `OneRequest` that nothing else is in the buffer;
  `Counted` that there are no more answers than requests, and one less while a partner owes its own.
  `Linked` is the agreement between the connection and its partner; it has at most one, because
  a request is taken up only by a connection that has none.  `Closed` and `FileOK` say that nothing
  is left of a connection that is closed or of a file that is done.  The lemmas follow the code: each
  handler says an answer (`Said`), a file (`FileSaid`) or stores (`PutSaid`), and of each of these it
  is shown once what it does to the stream.  `PutStored` needs `StoredInv` besides: when all that was
  asked for is answered and the last answer says that a file was stored, the file is there and
  closed.  It is `Held` by three kinds of steps.  A new answer says so only if the whole body was in
  the buffer (`AnsweredHeld`); a request that is taken up makes an answer be missing, and the
  connection that ends answers only such a request (`CloseHeld`); every other step is `Quiet`: it
  says nothing of a file that was stored, opens none, and writes only to one that is open.  Cut
  files are left out, as in the property.  The fairness of `Spec` is not used.

* **ListsProofs.**  `ListsAsBuiltHolds`, `OthersKeepPrefixHolds`, for any variables, numbers and
  number of cells.  That no chain is a ring is inductive as `Ranked`: numbers for the cells that
  every cdr follows downwards.  A prepended cell gets a number above all others; a cell put after
  the last one of a chain gets the lowest, and the others move up by one.  From the numbers follow
  the chains (`PathFalls`, `PathExists`, `PathIsChain`: there is exactly one path from a cell, and
  the recursion of `ChainIn` finds it), and what a step does to them: a new cell in front changes
  none (`ConsChains`), one at the end is added to those that end there (`LastChains`).  The
  operators need three more facts: where each loop is in its list and what it has done so far
  (`AppendInv`, `CopyInv`, `ReverseInv`), and that the cells of a copy or a reverse are reached from
  each other only (`Apart`), without which another variable could see them grow.  The `foreach` is in a
  cell that exists (`EachOK`), and its body is one of the expressions the lemmas are about.

Recursion in these modules is over numbers (frames, chunks, chains, buckets, sums).  Such a
definition is a recursive function, whose values are shown to exist and to have their property by
induction from the least element of a set of numbers (`LeastElement`, `SetInduction`,
`Recursion`), because an induction theorem with an operator as parameter cannot be used.

Only model-checked: liveness (`CallsReturn`, `EveryFormEnds`, `ImportEnds`, `LoopsEnd`,
`NobodyWaits`, `TransferEnds`, `ResolvingEnds`, `TunnelSettles`), which is out of the prover's
reach; everything of `Text`, whose operators are recursive; what the web server hands over
(`RequestsInOrder`, `FramesAsSent`), which compares with recursive readings of scripts and holds
only of scripts whose lengths are true and where nothing follows a chunked body (the zero chunk
ends the message where the buffer ends, whatever came behind it); of the file server,
`OnlyAuthorized`, whose passwords are those of the instance; the properties of the evaluator, which
speak of particular programs.

## 5. What is not modelled

* `doc`, `dir`, `ctxget`, `mksym` and `listbuiltins`, which only read; the texts of errors;
  `*PATH*` as a string; the command line and the history of the prompt.
* Characters of tokens: the lexer is generated from `lexer.l` and has no state of its own.
* Running the C compiler and the stub of `blc`; `init.c`.
* The modules cffi, os, error, py27, hello and testmod: calls into libraries.
* Of mongoose: SSL, SNTP, the MQTT broker and the DNS server, JSON (frozen), the compression
  functions of MD5 and SHA-1, the ports to other systems (CC3200, lwIP, WinSock), `mg_broadcast`
  (which blocks for ever when it is called from the thread that polls), serial and tunnelled
  interfaces, and the text of listings and PROPFIND answers.  `OnlyAuthorized` is about requests
  answered with a protected file: one that another page includes,
  `MOVE`, `DELETE`, `PROPFIND` and listings are not in it.
* Everything under `vendor/`.

## 6. Plan

Done, in this order: symbols, contexts with scopes as the abstract specification, the
evaluator, the pool, modules; then lists, the remaining operators, reader, printer, compiler and
strings, uthash under the symbols, and the web server: loop, HTTP, websockets, files, resolver,
SOCKS, codecs; then the proofs about contexts, import, outgoing connections, the poll loop, the
tunnel, the hash table, lists and the file server.  Next:

1. `Web`: that what a connection has read and not yet handled is a suffix of what was sent, as
   long as no body comes in chunks, the first step towards `RequestsInOrder`.
2. `MCFiles`: `OnlyAuthorized` with the passwords as a parameter of `Site`, to be proved for any.
