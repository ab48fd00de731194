------------------------------ MODULE Require ------------------------------
(***************************************************************************)
(* require, package.loadlib and the libraries they open (loadlib.c): how a *)
(* loader is found, what runs it and what happens when it fails, and when  *)
(* lua_close lets the libraries go, while finalizers written in C still    *)
(* have to run (lgc.c).                                                    *)
(*                                                                         *)
(* A name is a sequence of words, "." and "-"; a file is a template of a   *)
(* path and what takes the place of its "?".                               *)
(***************************************************************************)
EXTENDS Integers, Sequences

CONSTANTS
  Names,       \* of modules
  LPath,       \* package.path and package.cpath: sequences of templates
  CPath,
  Chunks,      \* the readable files that are Lua chunks without errors,
  Symbols,     \* those that are libraries, with what each exports,
  Others,      \* and those that are neither
  Preload,     \* names with a loader in package.preload
  MaxFrames,   \* bounds: of functions that run inside one another,
  MaxObjects   \* and of objects with a finalizer

Libs == DOMAIN Symbols
CLIBS == <<>>     \* the table of the registry that holds the libraries

ASSUME RequireAssumption ==
  /\ MaxFrames \in Nat /\ MaxObjects \in Nat
  /\ CLIBS \notin Libs
  /\ \A n \in Names : n \in Seq(STRING)

VARIABLES
  loaded,     \* package.loaded
  clibs,      \* the list part of CLIBS; CLIBS[path] is there when path is in it
  handles,    \* how many times dlopen opened each library and dlclose did not
  frames,     \* the functions that run, each called by the one before
  objects,    \* those with finalizers, in the order they got them
  phase,      \* "run", then lua_close: "closing", "unloading", "closed"
  handle      \* n of gctm

libvars == <<loaded, clibs, handles, frames, objects, phase, handle>>

Values == {"nil", "false", "true", "table"}
ToBoolean(v) == v \notin {"nil", "false"}
Frame == [kind : {"loader", "C", "gc"}, name : Names \cup {<<>>}, file : Libs \cup {CLIBS}]

----------------------------------------------------------------------------
(* Searchers.  S has clibs and handles; a search gives them back with what *)
(* it found: nothing, a loader and the library it is in, or an error.      *)

Replaced(name, x, y) == [k \in DOMAIN name |-> IF name[k] = x THEN y ELSE name[k]]
Places(name, x) == {k \in DOMAIN name : name[k] = x}
First(K) == CHOOSE k \in K : \A m \in K : k <= m

\* findfile: a readable file, or none.
SearchPath(name, path) ==
  LET file(k) == <<path[k], Replaced(name, ".", "/")>>
      readable == {k \in DOMAIN path : file(k) \in Chunks \cup Libs \cup Others}
  IN  IF readable = {} THEN {} ELSE {file(First(readable))}

Known(S, file) == \E k \in DOMAIN S.clibs : S.clibs[k] = file

\* Mutant of AddToClib: the library is not in the list.
AddNothing(S, file) == [clibs |-> S.clibs, handles |-> [S.handles EXCEPT ![file] = @ + 1]]
AddToClib(S, file) ==
  [clibs |-> Append(S.clibs, file), handles |-> [S.handles EXCEPT ![file] = @ + 1]]

\* lookforfunc, of a file that can be opened
Opened(S, file) == IF Known(S, file) THEN S ELSE AddToClib(S, file)
Found(file, sym) == sym = <<"*">> \/ sym \in Symbols[file]

\* loadfunc: what is before the mark, then what is after it.
OpenNames(name) ==
  LET n == Replaced(name, ".", "_")
      marks == Places(n, "-")
  IN  IF marks = {} THEN {n}
      ELSE {SubSeq(n, 1, First(marks) - 1), SubSeq(n, First(marks) + 1, Len(n))}
HasFunction(file, name) == \E sym \in OpenNames(name) : Found(file, sym)

Search(what, file, S) == [what |-> what, file |-> file, S |-> S]
None(S) == Search("none", CLIBS, S)
Error(S) == Search("error", CLIBS, S)

SearcherLua(name, S) ==
  LET files == SearchPath(name, LPath)
  IN  IF files = {} THEN None(S)
      ELSE IF files \subseteq Chunks THEN Search("loader", CLIBS, S) ELSE Error(S)

\* Without its function a file of this name is an error; without that of its
\* submodule the file of a root is not.
InLibrary(files, name, missing, S) ==
  IF files = {} THEN None(S)
  ELSE LET file == CHOOSE f \in files : TRUE
       IN  IF file \notin Libs THEN Error(S)
           ELSE Search(IF HasFunction(file, name) THEN "loader" ELSE missing, file, Opened(S, file))
SearcherC(name, S) == InLibrary(SearchPath(name, CPath), name, "error", S)
SearcherCroot(name, S) ==
  IF Places(name, ".") = {} THEN None(S)
  ELSE InLibrary(SearchPath(SubSeq(name, 1, First(Places(name, ".")) - 1), CPath), name, "none", S)

FindLoader(name, S) ==
  LET l == SearcherLua(name, S)
      c == SearcherC(name, S)
  IN  IF name \in Preload THEN Search("loader", CLIBS, S)
      ELSE IF l.what # "none" THEN l
      ELSE IF c.what # "none" THEN c ELSE SearcherCroot(name, S)

----------------------------------------------------------------------------
(* What the program may do, in a function or a finalizer.                  *)

Here == [clibs |-> clibs, handles |-> handles]
Take(S) == clibs' = S.clibs /\ handles' = S.handles
Running == phase = "run" \/ (phase = "closing" /\ frames # <<>>)
Enter(kind, name, file) == frames' = Append(frames, [kind |-> kind, name |-> name, file |-> file])

\* An error ends the functions up to some protected call.
Throw == \E n \in 0..Len(frames) : frames' = SubSeq(frames, 1, n)

LibInit ==
  /\ loaded = [n \in Names |-> "nil"]
  /\ clibs = <<>> /\ handles = [f \in Libs |-> 0]
  /\ frames = <<>> /\ objects = <<CLIBS>> /\ phase = "run" /\ handle = 0

IsLoaded(name) ==
  /\ Running /\ ToBoolean(loaded[name])
  /\ UNCHANGED libvars

Require(name) ==
  /\ Running /\ Len(frames) < MaxFrames /\ ~ToBoolean(loaded[name])
  /\ LET r == FindLoader(name, Here)
     IN  /\ Take(r.S)
         /\ IF r.what = "loader" THEN Enter("loader", name, r.file) ELSE Throw
  /\ UNCHANGED <<loaded, objects, phase, handle>>

\* The rest of ll_require, when the loader returns v; other functions just return.
Return(v) ==
  /\ frames # <<>>
  /\ LET f == frames[Len(frames)]
         set == IF v # "nil" THEN v ELSE loaded[f.name]
     IN  IF f.kind = "loader"
         THEN loaded' = [loaded EXCEPT ![f.name] = IF set = "nil" THEN "true" ELSE set]
         ELSE UNCHANGED loaded
  /\ frames' = SubSeq(frames, 1, Len(frames) - 1)
  /\ UNCHANGED <<clibs, handles, objects, phase, handle>>

\* package.loaded[name] = v, as a loader may do for its own module
SetLoaded(v) ==
  /\ frames # <<>>
  /\ LET f == frames[Len(frames)]
     IN  f.kind = "loader" /\ loaded' = [loaded EXCEPT ![f.name] = v]
  /\ UNCHANGED <<clibs, handles, frames, objects, phase, handle>>

Fail ==
  /\ Running /\ Throw
  /\ UNCHANGED <<loaded, clibs, handles, objects, phase, handle>>

\* package.loadlib: only opens the library, whether or not the function is there
LoadLib(file) ==
  /\ Running /\ Take(Opened(Here, file))
  /\ UNCHANGED <<loaded, frames, objects, phase, handle>>

\* A function of a library, gone through the module or package.loadlib, is called.
CallC(file) ==
  /\ Running /\ Len(frames) < MaxFrames /\ Known(Here, file)
  /\ Enter("C", <<>>, file)
  /\ UNCHANGED <<loaded, clibs, handles, objects, phase, handle>>

\* It makes an object whose __gc is one of the library; what is made during
\* lua_close is freed without being finalized.
NewObject ==
  /\ frames # <<>> /\ Len(objects) <= MaxObjects
  /\ LET f == frames[Len(frames)]
     IN  /\ f.file # CLIBS
         /\ objects' = IF phase = "run" THEN Append(objects, f.file) ELSE objects
  /\ UNCHANGED <<loaded, clibs, handles, frames, phase, handle>>

\* The collector finalizes an object; the registry keeps CLIBS alive.
Collect ==
  /\ phase = "run" /\ Len(frames) < MaxFrames
  /\ \E k \in 2..Len(objects) :
       /\ Enter("gc", <<>>, objects[k])
       /\ objects' = SubSeq(objects, 1, k - 1) \o SubSeq(objects, k + 1, Len(objects))
  /\ UNCHANGED <<loaded, clibs, handles, phase, handle>>

----------------------------------------------------------------------------
(* lua_close.                                                              *)

Close ==
  /\ phase = "run" /\ phase' = "closing" /\ frames' = <<>>
  /\ UNCHANGED <<loaded, clibs, handles, objects, handle>>

\* Mutant of NextFinalized: those that got their finalizer first are called first.
OldestFinalized == 1
NextFinalized == Len(objects)

\* luaC_freeallobjects calls the finalizers, the last one first.
Finalize ==
  /\ phase = "closing" /\ frames = <<>> /\ objects # <<>>
  /\ objects[NextFinalized] # CLIBS
  /\ Enter("gc", <<>>, objects[NextFinalized])
  /\ objects' = SubSeq(objects, 1, NextFinalized - 1) \o SubSeq(objects, NextFinalized + 1, Len(objects))
  /\ UNCHANGED <<loaded, clibs, handles, phase, handle>>

\* gctm, the finalizer of CLIBS
FinalizeClibs ==
  /\ phase = "closing" /\ frames = <<>> /\ objects # <<>>
  /\ objects[NextFinalized] = CLIBS
  /\ objects' = SubSeq(objects, 1, NextFinalized - 1) \o SubSeq(objects, NextFinalized + 1, Len(objects))
  /\ phase' = "unloading" /\ handle' = Len(clibs)
  /\ UNCHANGED <<loaded, clibs, handles, frames>>

UnloadLib ==
  /\ phase = "unloading" /\ handle >= 1
  /\ handles' = [handles EXCEPT ![clibs[handle]] = @ - 1]
  /\ handle' = handle - 1
  /\ UNCHANGED <<loaded, clibs, frames, objects, phase>>

Unloaded ==
  /\ phase = "unloading" /\ handle = 0 /\ phase' = "closed"
  /\ UNCHANGED <<loaded, clibs, handles, frames, objects, handle>>

LibNext ==
  \/ \E n \in Names : IsLoaded(n) \/ Require(n)
  \/ \E v \in Values \ {"true"} : Return(v)
  \/ SetLoaded("table") \/ Fail
  \/ \E f \in Libs : LoadLib(f) \/ CallC(f)
  \/ NewObject \/ Collect \/ Close \/ Finalize \/ FinalizeClibs \/ UnloadLib \/ Unloaded

LibSpec == LibInit /\ [][LibNext]_libvars

----------------------------------------------------------------------------
LibTypeOK ==
  /\ loaded \in [Names -> Values]
  /\ clibs \in Seq(Libs)
  /\ handles \in [Libs -> Int]
  /\ frames \in Seq(Frame)
  /\ objects \in Seq(Libs \cup {CLIBS})
  /\ phase \in {"run", "closing", "unloading", "closed"}
  /\ handle \in Nat

\* What is in CLIBS and not yet unloaded is what is open, once; all others hold
\* only libraries that are in it, and CLIBS got its finalizer before them.
Left == IF phase \in {"run", "closing"} THEN Len(clibs) ELSE handle
OpenOnce ==
  /\ \A k, m \in DOMAIN clibs : clibs[k] = clibs[m] => k = m
  /\ \A f \in Libs : handles[f] = IF \E k \in 1..Left : clibs[k] = f THEN 1 ELSE 0
  /\ handle <= Len(clibs) /\ (phase = "closed" => handle = 0)
InClibs ==
  /\ \A k \in DOMAIN frames : frames[k].file # CLIBS => Known(Here, frames[k].file)
  /\ \A k \in DOMAIN objects : objects[k] # CLIBS => Known(Here, objects[k])
ClibsFirst ==
  IF phase \in {"run", "closing"}
  THEN objects # <<>> /\ \A k \in DOMAIN objects : objects[k] = CLIBS <=> k = 1
  ELSE frames = <<>> /\ objects = <<>>
LibInv == OpenOnce /\ InClibs /\ ClibsFirst

(***************************************************************************)
(* A function of a library that runs, and one a finalizer has still to     *)
(* call, are there: the library is open, also while lua_close calls the    *)
(* finalizers; each library is opened once, and in the end all are closed  *)
(* as often as they were opened (lookforfunc, addtoclib, gctm).            *)
(***************************************************************************)
LibrariesStayOpen ==
  /\ \A k \in DOMAIN frames : frames[k].file # CLIBS => handles[frames[k].file] = 1
  /\ \A k \in DOMAIN objects : objects[k] # CLIBS => handles[objects[k]] = 1
  /\ phase = "closed" => \A f \in Libs : handles[f] = 0
=============================================================================
