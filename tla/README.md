# Configi in TLA+

Configi is a small configuration management agent written in Lua. A *policy* is a Lua
script that declares *promises* (`file.copy`, `systemd.started`, `apk.present`, ...); the
program `cfg-agent` reads it once, puts the promises in order, and runs each of them
until none fails. The agent is linked statically with the Lua interpreter of `lib/lua`,
and its tests download from the web server of `lib/web.h`. This directory holds TLA+
modules that model the agent, the interpreter and that server, the configurations with
which TLC checks them, and theorems that TLAPS proves about them.

All paths below are relative to the repository; `cli.lua`, `std.lua` and `cfg-core/lib.lua`
are in `src/lua/cfg-core/`, the promise modules in `src/lua/cfg-modules/`, `lib.lua` and
`tsort.lua` in `vendor/lua/`, the files of the interpreter in `lib/lua/`.

    tlc -workers 2 -config MCAgent.cfg MCAgent     # and likewise for the other MC modules
    tlapm AgentProofs.tla                          # and likewise for the other *Proofs modules

`PROJECT.json` names, for every definition that models code, the lines it models; for
every checked property, a mutation of the model that breaks it; and the hazards of the
code with the properties that watch them.

## 1. Inventory

### How the parts interact

    cfg-agent (process)
      cli.opt -> cli.main    load scripts: std.add_from_dirs, std.add_from_role   [Loader]
                             order promises: tsort                                [Dag, TSort]
      cli.try                passes, verdict, handlers                            [Agent, Retry]
        cli.run -> module.function -> cfg.init, F.run, F.result, F.kept           [Promise]
                     systemd, openrc                                              [Service, Promises]
                     apk, apt, luarocks, opkg, portage, yum                       [Package, Promises]
                     file                                                         [Paths]
                     edit, template, authorized_keys -> file.atomic_write         [AtomicWrite]
                     all -> exec.exec, exec.qexec: fork, pipes, execve, wait      [Exec]
        cli.hrun           the handlers of notified tags (a coroutine)            [Agent]
      exit status, sleep, again

    Lua interpreter
      load: lzio, lundump / lparser, lcode                          [Chunk, Parser, CodeGen]
      lvm over closures, upvalues, tables                  [Machine, LuaValues, Table, Sort]
      ldo: calls, errors, coroutines                                     [Calls, Coroutines]
      lgc: marks, sweeps, finalizes beside the program                           [Collector]
      lstrlib, loadlib                                                   [Patterns, Require]

    test web server (a process of its own)                                             [Web]

There are no threads. Concurrency is between processes: the agent and the child it forks
(`Exec`), several agents or an administrator on the same files (`AtomicWrite`, `Paths`),
the host that changes while a promise looks at it (`Promises`, `Paths`), the server and its
clients (`Web`). Inside the interpreter the collector works in steps between those of the
program, and coroutines take turns on one C stack. Inside the agent, the handlers run in a coroutine interleaved with the reading of the results, and
the order of every traversal of a Lua table (`pairs`) and of every directory listing is
open. Nothing is persisted by the agent itself: the state that survives a crash is the
host's.

### Components

1. **Agent loop** (`bin/cfg-agent.lua`, `cli.try`, `cli.run`, `cli.hrun`). *State*: the
   command line, the pass, the results of the pass, the tags notified, the verdict `R`
   (failed, repaired, kept), the exit status. *Operations*: start a try, a pass, run a
   promise, read a result, run a handler, judge the pass, exit or sleep. *Hard*: the
   verdict is accumulated over results and handlers with different rules for each; tags
   live through all passes of a try; a promise function may return nothing; any Lua error
   ends the process. *Correct if* handlers run exactly for what was notified, a pass is
   repeated only after a failure and at most `-r` times, the verdict is that of what was
   read, and a run without `-p` ends.
2. **Policy loader** (`cli.main` up to the graph, `std.lua`). *State*: the list of scripts,
   the script environment, the queues of promises and handlers, the roles named.
   *Operations*: list a directory, run a script, declare, copy the queues. *Hard*: the main
   script is run twice; directories are listed in any order; roles are named while
   scripts run. *Correct if* every promise is queued once and attributes are set before
   they are used.
3. **Dependency graph** (the end of `cli.main`, `tsort.lua`). *State*: the queue, the
   graph, the marks and the recursion of the depth-first search. *Hard*: links come from three sources
   and refer to names several promises may share; roots are taken in any order. *Correct
   if* every declared order is honoured, circles are reported exactly when real, and
   nothing is dropped that could be linked.
4. **Promise harness** (`cfg-core/lib.lua`: `F.run`, `F.result`, `F.kept`,
   `cfg.init`). *State*: the results table of one promise. *Operations*: check parameters,
   run a command under the modes `-t`, `-x`, `-v`, report. *Hard*: the number 0 is true in Lua;
   under `-t` a run returns `true` where callers compare with a status. *Correct if* a report says
   what happened and `-t` changes nothing.
5. **Service modules** (`systemd`, `openrc`). *State*: whether a service is active and
   enabled. *Operations*: started, stopped, restart, reload, enabled/add, disabled/delete.
   *Hard*: state read, then acted on. *Correct if* reports are true and promises converge.
6. **sysvinit**. It requires a module `cfg` that no file of the repository provides and cannot be
   loaded: not modelled.
7. **Package modules** (`apk`, `apt`, `luarocks`, `opkg`, `portage`, `yum`). *State*: whether
   a package is installed. *Operations*: present, absent, with refresh or update. *Correct*
   as for services. `yum.add_repo` and `yum.clean` are left out.
8. **Atomic file writer** (`file.atomic_write`, `fd.write`, the retry wrapper of `lib.lua`).
   *State*: the temporary file, how much of it is written and synced, the target and its
   mode. *Hard*: short writes, fsync failing or interrupted, other writers, kills, power
   loss. *Correct if* the name never holds anything but the old file or one writer's whole
   string.
9. **Command execution** (`exec.exec`, `exec.qexec`, `pipe` copying). *State*: two processes,
   three bounded pipes and who holds their ends, the child's status. *Hard*: who blocks on
   whom, SIGPIPE, EINTR, a child that fails before `execve`, output taken apart into lines. *Correct if* the call ends, and
   has read the whole output of its child before it waits for it.
10. **edit, template, authorized_keys**: read a file, change it in memory, write it with
    8 if it changed. Not modelled.
11. **cron**: `crontab -l`, change, `crontab -`. *Hard*: a failing query reads as an empty
    crontab; another writer in between. Not modelled; the hazard is listed.
12. **file** (`attributes`, `link`, `hard`, `directory`, `touch`, `absent`, `copy`). *State*:
    the object at the path, its backup, its attributes, the source. *Operations*: each a
    sequence of commands any of which may fail. *Hard*: failure or a kill between two
    commands; stat follows symlinks and chown does not; backups. *Correct if* reports are
    true, promises converge, backups are kept, and nothing that stat shows is lost without force, absent or backup.
13. **user, shell, process, mount, lkm, sysctl, hostname, iptables, git, make, unarchive**:
    one or a few commands each, under the harness of 4. Not modelled.
14. **Facts** (`fact.lua`, `factid.lua`), **Lua extensions** (`cimicida.lua`, `args.lua`,
    `strings.lua`), **C extensions** (`vendor/c`): snapshots, helpers and thin wrappers of
    system calls without a protocol of their own; not modelled.
15. **Lua collector** (`lgc.c`). *State*: the colours, the lists of objects and of gray
    objects, the phase and the place of the sweep. *Operations*: a step, a full or an
    emergency collection, the barriers, making objects, setting finalizers. *Hard*: the
    program stores between two steps; weak tables and ephemerons; finalizers that resurrect
    or fail in the middle of a sweep. *Correct if* nothing the program can reach is freed or
    finalized, and garbage is freed in the end.
16. **Lua tables** (`ltable.c`, `ltablib.c`). *State*: the array, the nodes and their chains.
    *Hard*: collisions move nodes, both parts are resized in the middle of an assignment,
    keys die while they are the control variable of a traversal. *Correct if* it is a map.
    `table.sort` scans without bounds of its own. *Correct if* it never reads outside,
    loses nothing, and sorts when the order function is an order.
17. **Lua calls and coroutines** (`ldo.c`, `lcorolib.c`, parts of `lapi.c`). *State*: the
    CallInfos of each thread, the counters `nCcalls` and `nny`, the C stack. *Hard*: errors and
    yields are longjmps that leave the counters to be put right elsewhere. *Correct if*
    the C stack is bounded and the machine behaves as coroutines without one.
18. **Lua compiler** (`lparser.c`, `lcode.c`) and **virtual machine** (`lvm.c`, `lfunc.c`). *State*: the code,
    registers, jump lists, blocks and gotos of the functions being compiled; frames,
    stack, upvalues, tables of the running ones. *Hard*: one pass, with jumps patched
    later, registers reused, instructions merged. *Correct if* the code does what the source means and
    reads no register that was not written.
19. **Lua libraries** (`lstrlib.c`, `lundump.c`, `ldump.c`, `lzio.c`, `loadlib.c`, `lauxlib.c`,
    `lbaselib.c`). Patterns: a backtracking matcher over one array of captures. Chunks:
    functions dumped, kept, loaded in pieces. `require`: libraries opened once and closed
    when the state is. *Correct if* a match is what the pattern means, what is loaded is
    what was dumped, and a library is open as long as a function of it may run.
    Formatting, packing, files, dates, mathematics, UTF-8 and the debug library are not modelled.
20. **Test web server** (`lib/web.h`, `test/core-fact/httpd.c`). *State*: the connection, its
    buffers, what the socket holds. *Hard*: heads and bodies arrive in pieces, responses are larger
    than the buffer, clients leave. *Correct if* answers are whole and clients are served.
21. **sysvinit** (see 6) and **third-party code** (luaposix, luacheck, luastatic, the test framework): not modelled.

## 2. Plan

Modules, in the order in which they were built:

| order | module | models | composes |
|---|---|---|---|
| 1 | `Agent`, `Retry` | the agent loop; what a user may rely on of it | `Agent` implements `Retry` |
| 2 | `TSort`, `Dag` | the order of the promises | `Dag` drives `TSort` |
| 3 | `Loader` | the scripts of a policy and their queues | feeds `Dag` and `Agent`, which take any queue |
| 4 | `AtomicWrite` | the atomic writer | several writers of one file |
| 5 | `Exec` | command execution | agent and child |
| 6 | `Promise`, `Service`, `Package`, `Promises` | the harness; services and packages on a host | `Promises` runs both kinds over one host |
| 7 | `Paths` | the file module | uses `Promise` |
| 8 | `Collector` | the collector beside a program | program, collector, finalizers |
| 9 | `Table`, `TableSpec` | tables; a plain map | `Table` implements `TableSpec` |
| 10 | `Sort` | `table.sort` | |
| 11 | `Calls`, `Coroutines` | calls, errors, coroutines; what Lua promises of them | `Calls` implements `Coroutines` |
| 12 | `LuaValues`, `CodeGen`, `Parser`, `Machine`, `Semantics` | compiler, virtual machine; an evaluator of the source | `Machine` runs what `Parser` makes, judged by `Semantics` |
| 13 | `Web` | the test web server and its clients | |
| 14 | `Patterns`, `Chunk`, `Require` | matching, precompiled chunks, modules and libraries | |

Left for later: a module `Lines` (edit, template, authorized_keys, cron: read, change, write, with another
writer in between, over what `AtomicWrite` promises); the promise modules of item 13; the parameters
of `cfg.init`. Theorem still worth proving: that `Calls` implements `Coroutines`, from the invariant of `CallsProofs`.

## 3. The modules and the code

**Agent** has one control location `pc` per place where `cfg-agent.lua` and `cli.try` choose.
`Load`/`LoadFails` are `cli.opt`; `StartTry` the call of `cli.try`; `NextPass`, `NoMorePasses`
and `EndPass` the head and the end of `for this = 1, source.runs`; `RunPromise` is one turn of `cli.run`,
`ReadResult` one of `ipairs(results)`, `ReadDone` its end, a nil result included; `PickTag`,
`RunHandler` and `TagDone` are the coroutine `cli.hrun` and what `cli.try` does with each
result it yields; `ReportFailure`, `ReportSuccess` and `Sleep` are the end of
`cfg-agent.lua`. A promise is any of `Outcomes`, or no result, or the end of the
process. `rh[#rh]` is read as Lua defines it, by any border of a table with
holes. `tags` and `R` are the variables of `cli.try`; `log` is a history variable: what was read in this try. The
watch branch of `cfg-agent.lua` is left out: `w` is missing from the letters `getopt` is
given, so that it cannot be reached; and so is debug output.

**Retry** has no promises: a try is a number of failing passes, at most `-r`, ended by a
clean one or by giving up. `Agent` implements it under `phaseBar`, `passesBar`, `failedBar`,
which inside a pass show the state after the last pass.

**TSort** is `tsort.lua` with its recursion as an explicit stack, one action per
branch of `visit` and an arbitrary choice of roots. **Dag** builds its graph as `cli.main` does, from the last
promise of the queue to the first: a plain promise is tied to a plain one above it
(`AddPlain`), any other is compared with every promise (`Link`); a require or a before that is not
Lua ends the agent (`StartLinks`).

**Loader** runs scripts statement by statement: a statement declares a promise, names roles
or assigns a variable of the environment all scripts share. `Listings` is
`std.add_from_dirs` in every order a directory may be read. The first run of the main
script (`probe`) and its throw-away queues (`StartQueue`) are modelled, as are the copies
of the queues made after each script (`EndScript`).

**AtomicWrite** has one action per system call, for each writer: `Create` is mkstemp, `Write`
one `write(2)` of the loop in `fd.write`, which offers the buffer from its start each
time, `Sync`, `SyncFails` and `SyncInterrupted` fsync and the wrapper around it, `Rename`
and `Chmod` the end. A string is a sequence of blocks. `Kill` ends one writer, `PowerLoss` all of
them, and of a file only what was synced is then sure to be there.

**Exec** runs the agent and its child side by side. The agent's actions follow `exec.exec`:
write stdin, close it, read stdout to its end, read stderr, wait, and every early return between them (`StdinFails`, `RedirectFails`),
after which the pipes stay open; the child's are those of
a forked process up to `execve` and then of any program: it reads, writes, closes and
exits as it likes, deciding on a stream before it can tell whether it will block. A text is a sequence of
newlines and other characters, of which a pipe holds `Cap`; `Collected` is what `fdcopy` makes of it: the
places in it that are returned. A write of stdin that is interrupted or falls short, which `fd.write` begins again, is left out.

**Promise** is what `F.run` returns of a command in each mode and how a function turns it
into a report. **Service** and **Package** are, for each function of each module, what it
looks at, when it gives up, and what it reports of its command; a package has one of four kinds of name (`Names`), because
for three of them some module's query cannot see the package. **Promises** takes these
to a host, a set of facts: `Look` and `Act` are separate steps between which `Drift` may
change the host; a query may fail, and a command that fails may have done its work.

**Paths** follows the seven functions of `file.lua` through their commands, each its own step:
`Begin` (parameters and guards), `Look` (stat), `Back` (mv to the backup), `Clear` (rm),
`Make` (ln, mkdir, touch, cp), `Attrib` (chown, chgrp, chmod, in turn), with a stop of the agent
(`Restart`) and changes by others (`Drift`) between any two. `Messages` is whether the table of messages exists
that `F.kept` looks into. The commands are seen as what coreutils
do with a file, a directory, a symlink or a hard link at the destination, including a stop half-way.

**Collector** is a transition of a heap `s` per call of the interpreter: `Step` is `luaC_step`,
`Collect` a full or an emergency collection, the other actions what a program does (make, store,
fetch, set a metatable, resume), with the barrier the code calls after it. Marking and sweeping are operators
named after the C functions, `ReallyMark` to `SingleStep`; how much one step does is
open. The address of an object never matters; a field of a table is a node with a key and a value.
All-weak tables may keep stale keys of empty nodes, which the properties exclude as the code does.

**Table** keeps the array, the nodes with their chains and `lastfree` as `ltable.c` does;
`AddKey`, `MoveColliding`, `Rehash`, `Resize` are `luaH_newkey` and below, `NextKey` is `luaH_next`,
`Collect` clears a node as the collector does, `TInsert`, `TRemove`, `TMove` are `ltablib.c`.
**TableSpec** is a function from keys to values with a traversal that returns each key once.
**Sort** has one action per loop of `auxsort` and `partition`, its recursion as a stack of intervals.

**Calls** has CallInfos and the C stack side by side: an error or a yield drops what is on the C stack above the innermost
`luaD_rawrunprotected` of its thread; `Unroll` finishes the rest. **Coroutines** has stacks of activations and nothing else.
`MCCode` extends `Calls` and checks its properties as they stand; the programs for the compiler are a module of their own, `MCPrograms`, which it instantiates.

**Parser** and **CodeGen** are the operators `f -> f` of `lparser.c` and `lcode.c` on the state of
a function, over syntax trees: a program is a tree, the tokens of an expression in order, so that precedence, jump
lists, constant folding and register allocation are the code's. **Machine** has one action
per group of instructions of `luaV_execute`; a register nobody has written is `Junk`.
**LuaValues** has integers of `Bits` bits. **Semantics** evaluates the tree directly, without registers, jumps or
upvalues. Strings used as numbers, floats, metamethods, hooks and the cache of closures are left out.

**Patterns** is `do_match` and its helpers with the array of captures passed on as the C code shares it, and
`find` (from a position, and as a plain search), `gmatch` and `gsub` around it; what a pattern means is a set of ways, searched in order of preference.
**Chunk**: a chunk is a sequence of bytes (below `Base`; wider values take two), written by `DumpFunction` and read by `LoadFunction` through
`ZRead`, whose input comes in pieces: one string, what a reader function returns call after call, or the blocks of a file behind a
mark and a first line with `#`. `Cut`, `Grow` and `Foreign` are what may happen to it where it is kept. A mark that is cut short right before a
`#` is excluded: `skipcomment` then skips a line that is not the first.
**Require** has `package.loaded`, the list `CLIBS`, the counts of `dlopen`, the functions that run and the objects with finalizers;
`Close` to `Unloaded` are `lua_close`. The path variables of the environment and what is compiled only with `LUA_COMPAT_MODULE` are left out;
a build without `LUA_USE_DLOPEN` is one whose libraries are all files that cannot be opened.

**Web** runs `wby_update` step by step (`select`, accept, receive, parse, continue, serve, discard, respond,
compact) with two clients that ask, send bodies in pieces and may leave. The one
connection, no websockets and the three answers are those of `httpd.c`, the only user. Clients do not pipeline. A response is a
sequence of texts; one may be several units long (`Units`), and `Push` puts it into the buffer, splits it at a flush, or sends it past the buffer. No text is longer than
the 1024 bytes `wby_printf` formats in (it would write out what lies behind them, which C leaves undefined; those of `httpd.c` are short), and a `send` that takes only a part, which the code repeats with the
rest, is one `send`; a full socket blocks.

## 4. The runs

`pass` runs check that their properties hold; `violation` runs check one statement the
repository makes of itself and that the code does not keep.

| run | what it checks | states |
|---|---|---|
| `agent` | `OnlyNotifiedHandlers`, `NotificationsServed`: handlers run for what was notified in this try, in every pass, all of them. `PassOrder`: results before handlers, none twice. `VerdictIsLastWord`: `R` against the history. `ImplementsRetry`: passes. `Terminates`: a run without `-p` ends. | 150 000 |
| `policy` | The loader: `QueuedAsWritten`: each queue is what the scripts declare, in order, and scripts see the attributes of their own place. The sort: `DependenciesFirst`, `CycleIsReal` against its graph, `OrderHonoured` against the declarations, `OnlyDanglingDropped`, `RefusedOnlyIfImpossible`: nothing is lost or refused without reason. | 153 000 |
| `modules` | `ReportIsTrue`, `Converges`, for every function of eight modules and every kind of name. | 535 000 |
| `paths` | `FileReports` (true, and true again), `BackupKept`, `WhatDestroys`, `DryRunHarmless`, for every function of `file.lua`. | 704 000 |
| `atomic_write` | `NeverTorn`: at every moment the name holds the old file or only one writer's blocks, all on disk, never fewer than its string. `ExactIfUndisturbed`: exactly its string if no write was short and no fsync failed. | 242 000 |
| `exec` | `OutputWhole`: all the child wrote is read, in order, and every line of it that is ended is returned. `CallEnds`: the two processes never wait for each other for ever. | 423 000 |
| `collector` | `TriColor`: while marking, no black object refers to a white one the collector will not see again. `OnlyGarbageCollected`: what is freed or finalized was out of reach. `GarbageFreed`: and all of it is, in the end. | 39 000 |
| `lua` | Five parts, each alone. `IsMap`: tables are plain maps. `ReadsInside`, `Permuted`, `SortedAtEnd`: `table.sort`. `MatchesAsMeant`: patterns. `LoadsWhatWasDumped`: chunks. `LibrariesStayOpen`: `require` and `lua_close`. | 997 000 |
| `code` | `CodeIsRight`: every instruction of the compiled programs reads registers that were written, and what a program prints and how it ends is what `Semantics` says. `CountersMatch`: the counters are what the C stack holds, which stays below its limit. `IsCoroutines`: `Calls` implements `Coroutines`. | 181 000 |
| `web` | `AnswersWhole`: what a client has received is a sequence of whole answers to what it asked, and the beginning of another. `Served`: a client that stays gets its answers, or the server has stopped. | 92 000 |
| `agent_read`, `exec_cwd` | the findings of section 7. | |

The type invariants of the modules are proved or were checked while they were built; the runs spend their time on the properties
above. Deadlock is checked except in `collector` and `web`: the program that uses the collector may end, and the server stops on `/quit`.

### Bounds

* `agent`: two promises, of which the first notifies on repair and the second on failure and
  when kept; two handlers under one tag, one under the other; up to two passes; seven command lines (no pass,
  two passes, `-v`, `-p`, `-g` with one and with two tags, `-d`). Two promises are the least with
  an order between a failure and a repair; two handlers the least for a nil after a
  result; two passes the least for tags that outlive one. Theorems cover any number of each.
* `policy`: every queue of at most two promises over two names, of three with a
  shared name or three names, of four with one name, with every combination of require
  and before, dangling ones included; and the eight- and four-promise policies of the
  repository's tests. Three nodes have circles of every length up to three and diamonds
  need four, which the test policies have. Theorems cover every size. The loader has a main script naming two roles (one without `main.lua`),
  an embedded script, attributes, two includes in either order, handlers: scripts are deterministic, and what is open is the order of the listings and
  where a script fails.
* `atomic_write`: two writers of strings of two and three blocks (a short write can lose a
  middle block), one fsync failure and any number of interruptions each.
* `exec`: pipes of two characters (`Cap`), up to three of stdout (`MaxOut`: more than the
  pipe holds, and the least with a line, an empty line and a rest) and two of stderr (`MaxErr`: what it holds), stdin of up to `Cap`. A stdin or stderr larger
  than its pipe can block both sides for ever, as the code's order of reading implies; see the hazards.
* `modules`: every function alone, and three promises that share a service and a package;
  two passes (`MaxPasses`), because convergence relates a report to the one before; one change by
  others (`MaxDrift`) at any moment. `ReportIsTrue` and `Converges` are of plain names: of the others see section 7. A portage
  version with its operator makes the query compare one exact path; it is a plain name.
* `paths`: every function with each of its options, and pairs where one prepares the path for the next, from every
  state of path, backup and source; `owner` and `mode` of the three attributes (`owner` and `group` go the same way); two passes, one change by others.
* `collector`: six heaps of four objects, one for each mechanism that makes marking hard (barriers, ephemerons, weak
  tables, a coroutine with an open upvalue, closures, finalizers), with two operations of the program (`MaxOps`) at any moments of the collection: one store needs at
  most a second to hide what it moved. A step does up to two units of work (`MaxWork`), so that every point between two units is one
  where the program may act.
* `lua`: a table of five keys, three of which collide, two values (a symmetry set: a table never looks at them), from two sizes: a third collision makes a chain in which a node moves out of the middle.
  Sort: `N` elements in every order, keys with ties, order functions that are no order and that raise errors. Patterns: 484 patterns of up to seven items
  over every subject of up to three characters of two, two captures, and every way to call; plain
  searches and searches from positions before, in and behind the subject. Chunks: strings of 13 to 15
  bytes straddle the long form with `Base` 16; nested functions with and without the parent's source; cut at every byte,
  foreign in every part of the header; pieces of 1, 2, 3 and all bytes. Require: five names that take every path through the
  searchers, two nested functions (`MaxFrames`), one object with a finalizer (`MaxObjects`) beside `CLIBS`.
* `code`: 2,206 programs in families: every way to join three operands by logical operators, in every use; arithmetic and comparisons at the ends of
  4-bit integers; loops with closures over their variables, and every way out of them; gotos and labels among other statements in every order; assignments with
  conflicts; calls with open results; constructors that flush. `MaxIndexRK` and `FieldsPerFlush` are 2 so that both sides of each limit occur. Step 0 of a
  numeric loop, which the code leaves undefined, is excluded. A program is compiled and evaluated once (`Compiled`,
  `Meanings`). Calls: a main thread and two coroutines, which are interchangeable (the two are a symmetry set, the properties are safety properties), `MaxC` 4 and a
  stack of few CallInfos, so that every counter meets its limit; Lua code begins no call when the threads have `MaxRecords` CallInfos together.
* `web`: two clients for one connection, one of which may leave at any moment; heads of up to three lines, bodies of up to two blocks; buffers of three units, less than a response; data of four units, all different,
  so that a text fits, is split by a flush, or goes past the buffer. `httpd.c` has buffers of 8192 bytes, which its answers do not fill.

### Fairness

Safety needs none. `Terminates` assumes `WF_vars(Next)` of the agent: the process is a single thread
which the kernel schedules, and promises and handlers return (that commands do is `Exec`'s matter).
`CallEnds` assumes weak fairness of the agent and of the child: both are scheduled, and what the
child runs ends by itself; the program may nevertheless never read its input or close
its output early. `GarbageFreed` assumes that the collector goes on: allocations keep paying for its steps.
`Served` assumes that the server runs and that each client, as long as it stays, goes on
sending what it has begun: a client that stalls without leaving would hold the only
connection for ever, because `web.h` has no timeout.

## 5. What is proved

TLAPS proves the following for every value of the constants that meets the named
assumption of each module (`AgentAssumption`, `DagAssumption`, `AtomicWriteAssumption`, `ExecAssumption`, ...),
which only say what kind of thing each constant is. No theorem bounds the policy, the passes, the strings,
the writers, the pipes, the elements or the libraries.

* **AgentProofs.** `TypeCorrect`: the type invariant, which is inductive as it stands.
  `HandlersAreNotified` (`OnlyNotifiedHandlers`): the property speaks of the history
  alone; what makes it inductive is `HandlerInv`, that every tag in `tags`, every tag
  still to visit and the tag being visited is justified by `-g` or by a result already in
  the history. The lemma `AppendKeepsReasons` says that a longer history justifies no less. `PassesInOrder` (`PassOrder`): what is in the history of a
  pass comes in the order of the places in `cli.try`, and what it holds of the running tag is exactly the handlers before the
  one that is next. `NoNotificationLost` (`NotificationsServed`): `ServedInv` says that every
  tag in `tags` that is neither to be visited nor being visited has all its handlers in the
  history of this pass, and that whoever asked for a tag has put it in `tags`. `LastWord` and `RepairsKept`: `VerdictInv` states `R` as a function
  of the whole history; `AppendVerdict` is how that function changes with one more
  result, and the case of each action compares it with what the code assigns.
  `RetryEarned` (`RetryOnlyAfterFailure`) and `AgentImplementsRetry` rest on `PassInv`: between two passes
  `failed` is set exactly if there was a pass before, and a try that ends with a failure has made
  all its passes. `StepMaps` takes each action to a step of `Retry` or a stutter.
* **DagProofs.** `TypeCorrect`. `SortSound` (`DependenciesFirst`) and `CycleSound` (`CycleIsReal`):
  `SortInv` ties the marks to the stack and the sorted list: what is open is on the stack once, each
  node on it is the dependency its caller is at, what was passed is closed, and closed means sorted
  after its dependencies. `PolicyOrder` (`OrderHonoured`): `BuildInv` says that once the
  construction has passed a promise its links are edges of the graph; links are never
  removed (`AddNode`, `AddEdge`, `GrowthKeepsLinks`); together with `SortInv` and the fact that a sort that finishes has
  left no node unmarked, every declared order is an order of the result.
  `NothingElseDropped` (`OnlyDanglingDropped`) and `RefusalJustified` (`RefusedOnlyIfImpossible`) need the other direction, `ExactInv`: the graph
  has no node but those of the policy that are plain or tied by a declaration, and no edge that was not
  declared. What is sorted is then all that is a node, and the circle `tsort` reports is one of
  declared orders.
* **AtomicWriteProofs.** `TypeCorrect`, `TargetNeverTorn` (`NeverTorn`): `Inv` adds `Staged(w)` for each
  writer: its temporary file holds only its own blocks, and what it holds and what is left to write are
  never less than its string, so that the file is complete when it is renamed; it is renamed only when
  all of it is on the disk, so that a power loss takes nothing from the target. `ExactWrite`
  (`ExactIfUndisturbed`): `ExactInv` says what an undisturbed writer's file holds at each step.
* **LuaLibProofs**, over `Exec` (like the two Lua libraries below, a component of few theorems). `ExecTyped`, `OutputComplete` (`OutputWhole`): `Accounted` says that what the child
  wrote is in the pipe or has been read; `Descriptors` that the agent holds no end it should have closed, so that a stream is at its end only when
  the child has closed it; `Drained` that an undisturbed agent leaves a stream only when it is silent: empty
  and closed; and `Delivered`, that it then returns what `Collected` makes of all the child wrote.
* **PromiseProofs.** `TypeCorrect`. `ReportsTrue` (`ReportIsTrue`): the only report of a command comes with its
  effect; proved function by function over `Service` and `Package`. `Convergence` (`Converges`): `ConvergeInv` adds to the report of a promise that nobody has disturbed since that the host
  is as the promise wants it, for each function that wants something.
* **PathsProofs.** `TypeCorrect`, `DryRun` (`DryRunHarmless`). `DestructionExplained` (`WhatDestroys`): `StepInv` says which commands can be next: rm only of an absent or a
  forced directory promise, and an unforced cp only where stat showed nothing or what was there has gone to the backup. `KeepsBackup` (`BackupKept`): `KeptInv`: the backup
  is the old one, or the run is dry, or the user's object is still in place, or it is in the backup.
  `FileReportsTrue` (`FileReports`): `TruthInv` says what is already true of the promise under way (a command that succeeded left what the promise says, `CommandsTrue`; the attributes done
  with are right); `LastInv` carries that over to the next pass for every promise nobody disturbed since; and `QuietInv` says that such a promise goes from its look to its attributes and finds nothing wrong.
  ln into a directory, which puts the link inside it, is the one case `FileReports` leaves out.
* **LuaLibProofs**, over `Sort`. `SortReadsInside` (`ReadsInside`) and `SortPermutes` (`Permuted`), for any number of elements and any order function, errors included: `ScansOK` says where
  the two scans stand with respect to the elements that stop them. `SortSorts` (`SortedAtEnd`), for any keys and whatever pivots are drawn: `OrderInv` says that
  the intervals still to be sorted are `Disjoint`, that every two places that are not in one of them together are in order (`Settled`), and what the comparisons
  made in the running interval have shown (`Compared`). Two elements of one interval may change places (`SwapSettled`), the pivot splits an interval
  (`DivideOrder`), and when none is left the array is sorted. The same facts exclude the error "invalid order function" for an order.
* **LuaLibProofs**, over `Require`. `TypeCorrect`. `LibrariesOpen` (`LibrariesStayOpen`): `LibInv` says that `CLIBS` lists every open library once and those that `gctm` has passed are closed,
  that every function that runs and every finalizer to come is of a listed library, and that `CLIBS` got its finalizer
  before all others, so that it is the last to be finalized.
* **CallsProofs.** `CountersAgree` (`CountersMatch`), for any set of threads and any limits of the two stacks. The counters say nothing of how they got
  their values, and an error, a yield or a recovery puts back what an entry of the C stack saved long before; a return finds its own entry only if the
  CallInfos and the C stack fit together. So the invariant `Good` describes the whole machine. `Core`: every entry of the C stack is right about what lies below it (`EntryOK`): its depth is that of
  a frame that was there when it was made, the entries of a thread lie together with growing depths (`Ordered`), what `lua_pcall` and `lua_resume` saved is what was counted below
  (`BlockOK`, `ResumeOK`), and a call from C or from a metamethod was made by a frame that waits for it (`ApiOK`, `MetaOK`). `ThreadOK`: of each thread, its frames are those its entries need
  (`FramesOK`: a function that was called from C has its `luaD_call` under it, one called by Lua code has Lua code under it), and its counters are counts of entries. `ModeOK`: what each place
  in the code relies on, e.g. that the frame that runs lies where the top entry put it (`Placed`), and that a coroutine being continued has nothing of its own on the C stack but its `lua_resume`.
  `Matching` is the property itself, and all that is left when the main program has ended. The proof goes by what a step does to the stacks and not by action: a frame is changed or pushed (`Changed`),
  an entry is put on top (`Stacked`), the C stack is cut at an entry and the thread with it (`CutAbove`, `CutBelow`, `Jumped`, `Caught`), a coroutine gets on the stack (`Resumed`); each has
  one lemma, and each handler of `ldo.c` is one or two of these.

* **WebProofs.** `TypeCorrect`, `AnswersAreWhole` (`AnswersWhole`), for any number of clients, any scripts and any sizes of the two buffers.
  What a client has received says nothing of what is still to come, so the invariant describes the rest of the conversation, wherever it is.
  `InFlight(c, k, got)`: of request `k` the server has taken `got` items, and its other items lie, in order, in the socket and with the
  client. `Session(c, k)`, for the client being served, says for each place in `wby_update` which request is the one under way: while a head is
  read (`Reading`), all answers before are complete, `io_buf` is empty, and `header_buf` holds the beginning of the head; in the body (`InBody`), what is
  left to read is what is in flight; while the answer is printed (`Responding`), what was received and what is in `io_buf` is the beginning
  of the answers up to some piece of this one, and what is left to say is the rest of it. `Apart` says of the
  others that nothing of them has been touched, each is in the backlog at most once, and none is the one being served; `Well` is the types and what each
  place may rely on (`Shape`). `Stream`, all that a client is to receive, is a recursive function over the numbers of
  its requests; that it satisfies its equation (`JoinedEquation`) and that it only grows (`StreamGrows`) is shown with a least counterexample
  (`LeastNat`). The steps of the clients keep what the server relies on because a client never asks before its answer is complete (`AskSession`) and what it sends goes
  behind what is under way (`SendSession`).

The refinement and the invariants are those TLC checks in the runs `agent`, `policy`, `modules`, `paths`, `atomic_write`, `exec`, `lua`, `code` and `web`; the
strengthenings were checked by TLC on the same instances before they were proved, those of `Web` and `Calls` also on larger ones.

## 6. What is only model-checked, and what is not modelled

*Only model-checked*: liveness (`Terminates`, `CallEnds`, `GarbageFreed`, `Served`), because the prover does not reason about
fairness and ENABLED. `QueuedAsWritten`, `MatchesAsMeant`, `LoadsWhatWasDumped` and `CodeIsRight` say what recursive definitions compute for every input and would need induction over data, which the
available provers do not offer. `Collector` and the compiler are built from recursive operators, which the provers do not
accept; of `Table`, the refinement `IsMap`, and of `Calls`, the refinement `IsCoroutines`, are not proved.

*Not modelled*: components 6, 10, 11, 13, 14 and 21 of the inventory; the
messages, colours and log files; facts and templates in the environment of scripts; parameter
checks, aliases and truth values of `cfg.init`; several paths at once and the contents
of directories in `Paths`; the search for the source of a copy; a program that leaves a daemon
behind with its pipes open (it blocks `exec.exec`); the mode of an atomically written file (the
model sets it, no property is about it); the lexer, line information, floats, metamethods and hooks of the interpreter, and the libraries named under item 19; websockets, and a
server with more than one connection, where compacting the array makes two connections share a buffer (`web.h` allows it, `httpd.c` does not use it).

## 7. Findings

Two are counterexamples of the violation runs.

* **`agent_read`** `ipairs` stops at a nil result (`cli.lua:344`): every promise after one whose function
  returns nothing is ignored (openrc's reload, `mount.opts`, `iptables.default`).
* **`exec_cwd`** A child that cannot change its directory returns (`lib.lua:338`) and becomes a second agent that runs the
  rest of the policy; its exit status is taken for the command's.

Other divergences the models show, for which there is no run of their own:

* A repair erases an earlier failure (`cli.lua:348`): a pass in which one
  promise fails and a later one is repaired is not retried, and the agent exits 0, although the help text says
  "Run the policy N times if a failure is encountered" (`strings.lua:39`). `VerdictIsLastWord` and the theorem `LastWord` state what the code does.
* After a short write the buffer is offered from its start again (`lib.lua:207`), also to a command's stdin, and the
  file that results is renamed and reported written; `ExactIfUndisturbed` excludes it by name.
* A cp that fails removes the destination (`file.lua:359`), be it a copy it began
  or, with force, the object it was to replace. Without force it may be the user's dangling symlink: `stat` shows nothing (`file.lua:345`), so that the copy
  goes ahead, cp refuses to write through the link, and the link is removed (`file.lua:356-360`). `WhatDestroys` names this step.
* `exec.exec` returns only what a newline ends (`lib.lua:297-305`): a last line without one is lost if a line came before it, and so are
  empty lines.
* `luaC_step` may run finalizers while the sweep stands inside `tobefnz` (`lgc.c:1144`); `udata2finalize` takes the object the sweep stands on into `allgc`
  (`lgc.c:791`), the sweep goes on there, and the rest of `tobefnz` stays black, although `lgc.h:55-59` says that all objects are white after a sweep. A build with a counter in
  `GCSswpend` shows it: of 4000 live tables and 20000 tables with a finalizer that die at once 6578 are left black.
* `if c then goto L; ::L:: emit(1) end`: `test_then_block` (`lparser.c:1395`) takes a `goto` right after `then` for a conditional jump and skips what follows the
  label's no-op statements; when `c` is true the call is left out. Programs of this form are excluded from `CodeIsRight`.
* The wrapper that repeats an interrupted call never forgets the EINTR (`lib.lua:36`): the call is repeated after
  it succeeded, until it fails for another reason (`SyncInterrupted`, `SyncAgain`). A `wait` that was interrupted ends with "no child", so that the status of
  the command is lost and a success is reported as a failure (`WaitInterrupted`, `WaitAgain`).
* An interrupted read of a pipe is taken for its end (`lib.lua:287`), and the rest of the output is lost (`ReadInterrupted`); after a write
  to stdin or to a file that fails the pipes stay open and the child is not waited for (`StdinFails`, `RedirectFails`).
* A `require` or `before` that does not parse as Lua, or fails when it is run, ends the agent while the graph is built (`cli.lua:208-215`, `StartLinks`).
* Under `-v` a try in which a failure follows a repair ends with status 0, without `-v` with 1: the branches of `-v` look at the repair first
  (`cfg-agent.lua:36-50`, `ReportSuccess`). No property forbids it.
* After a failing fsync the string is appended to the temporary file again and the doubled
  file is renamed (`lib.lua:380`); `NeverTorn` allows it, `ExactIfUndisturbed` excludes it by name.
* Under `-t`, `systemd.reload` fails (`systemd.lua:107`): it compares what `F.run` returns with 0.
* `opkg.absent` calls a method its parameters do not have, and ends the agent.
* Names of packages (`Names`): `yum` asks for a group `@name` between literal quotes and never finds it, so that it is installed anew in every
  pass, and `yum.absent` asks for it as a package and always reports it gone; `portage` and `luarocks` hand names to `string.find`,
  where the hyphen of `util-linux` is an operator, and never find those; a `version` for `portage` that no operator precedes ends the agent (`portage.lua:39-40`), although
  its lead was then to become "=" (`portage.lua:41-43`).
* `file`: an existing object without attributes to set is reported repaired in every pass
  (`file.lua:93`), one just made whose attributes happen to be right is reported kept;
  attributes are read through a symlink and set on it (`file.lua:34`); ln and cp into a directory that is
  there are reported repaired; a path that is not there, as under `-t`, ends the agent when its
  attributes are read; a copy with backup moves its own first copy away in the second run; a part of a copy
  stays after a kill; `directory` removes the path although renaming it failed (`file.lua:249`); `file.attributes` with a satisfied guard
  ends the agent unless another promise of the module came before it, which leaves its messages (`cli.lua:305`).
