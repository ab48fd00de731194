------------------------------- MODULE MCLua -------------------------------
(***************************************************************************)
(* Parts of the Lua libraries, each over its own instances: tables, the    *)
(* sort of the table library, pattern matching, precompiled chunks, and    *)
(* require with the libraries it opens.                                    *)
(***************************************************************************)
EXTENDS Sort, Require, TLC

CONSTANTS v1, v2     \* the values in the table

VARIABLES half, t, cur, trav, seen,
          map,    \* what the table holds, read off once in every state
          call, src, last, found, outcome,
          thing, strip, stage, chunk, damage, how, result

----------------------------------------------------------------------------
(* A table with three integer keys, and an object and a string whose        *)
(* hashes collide; 4 stands for a float that is an integer.  A table never  *)
(* looks at the values: they are a symmetry set.                            *)
MCKeys == {<<"int", x>> : x \in 1..3} \cup {<<"obj", 1>>, <<"str", 1>>}
MCHash == [k \in {x \in MCKeys : x[1] # "int"} |-> IF k[1] = "obj" THEN 1 ELSE 5]
MCSizes == {<<0, 4>>, <<2, 1>>}

MCValues == {v1, v2}
Symmetry == Permutations(MCValues)

T == INSTANCE Table WITH
       Keys <- MCKeys, Hash <- MCHash, Floats <- {4}, Values <- MCValues, Nil <- 0,
       MaxABits <- 2, MaxInt <- 3, Sizes <- MCSizes

(***************************************************************************)
(* What the table holds is what a plain map would hold after the same      *)
(* assignments and library calls, its traversal returns each key once and  *)
(* ends when there are no others, and nothing a traversal may do makes its *)
(* control variable invalid (findindex): the mapping forgets where things  *)
(* lie.                                                                    *)
(***************************************************************************)
Map == INSTANCE TableSpec WITH Keys <- MCKeys, Values <- MCValues, Nil <- 0
IsMap ==
  /\ Map!Init
  /\ [][half = "table" /\ (Map!Next \/ UNCHANGED Map!vars)]_<<t, cur, trav, seen, map>>
  /\ []T!NextNeverFails

----------------------------------------------------------------------------
(* Patterns of two items, and of up to seven with captures, over subjects   *)
(* of up to three characters, for each way of calling the matcher; the      *)
(* shorter ones from each kind of beginning too, and plain texts.           *)
Single(set, suffix) == [what |-> "single", set |-> set, suffix |-> suffix]
Mark(what) == [what |-> what]
Ref(l) == [what |-> "ref", l |-> l]
AB == {"a", "b"}
Singles == {Single({"a"}, x) : x \in {"", "*", "-", "?"}} \cup {Single(AB, x) : x \in {"", "*", "+", "-"}}
Marks == {Mark("open"), Mark("close"), Mark("pos"), Ref(1), [what |-> "frontier", set |-> {"a"}],
          [what |-> "balance", x |-> "a", y |-> "b"], [what |-> "balance", x |-> "a", y |-> "a"]}
Captured == UNION {
   {<<Mark("open"), x, Mark("close"), y, Ref(1)>>, <<Mark("open"), x, y, Mark("close"), Mark("end")>>,
    <<Mark("open"), Mark("open"), x, Mark("close"), Mark("pos"), y, Mark("close")>>,
    <<Mark("open"), x, Mark("open"), y, Mark("close"), Mark("close"), Ref(2)>>} : x, y \in Singles}
MCPatterns == {<<>>, <<Mark("end")>>, <<Mark("open"), Mark("pos"), Mark("close"), Mark("pos")>>}
              \cup {<<x, y>> : x, y \in Singles \cup Marks} \cup Captured
MCSubjects == UNION {[1..n -> AB] : n \in 0..3}
Texts == {<<>>} \cup UNION {[1..n -> {Single({x}, "") : x \in AB}] : n \in 1..2}
Way(op, anchor, repl, max) ==
  [op |-> op, anchor |-> anchor, repl |-> repl, max |-> max, plain |-> FALSE, init |-> 1]
Ways == {Way("find", FALSE, "", 0), Way("find", TRUE, "", 0), Way("gmatch", FALSE, "", 0),
         Way("gsub", FALSE, "text", 9), Way("gsub", TRUE, "table", 9), Way("gsub", FALSE, "function", 1)}
Beginnings == {[Way("find", x = 2, "", 0) EXCEPT !.init = x] : x \in {-2, 2, 5}}
Plainly == {[Way("find", FALSE, "", 0) EXCEPT !.init = x, !.plain = TRUE] : x \in {-9, -2, 0, 1, 2, 4, 5}}
Call(w, x, y) == [op |-> w.op, anchor |-> w.anchor, plain |-> w.plain, init |-> w.init,
                  repl |-> w.repl, max |-> w.max, pat |-> x, subj |-> y]
MCCases ==
  {Call(w, x, y) : w \in Ways, x \in MCPatterns, y \in MCSubjects}
  \cup {Call(w, x, y) : w \in Beginnings, x \in MCPatterns \ Captured, y \in MCSubjects}
  \cup {Call(w, x, y) : w \in Plainly, x \in Texts, y \in MCSubjects}

P == INSTANCE Patterns WITH Cases <- MCCases, MaxCaptures <- 2, MaxDepth <- 5

\* What find, gmatch and gsub report is what the pattern means (lstrlib.c).
MatchesAsMeant == half = "patterns" => P!MatchesAsMeant

----------------------------------------------------------------------------
(* Functions with strings around the size that takes a longer form, with    *)
(* nested ones, and stripped before; texts with and without "#"; dumped,    *)
(* damaged at any byte and loaded in every way.  6 is "#" and 5 ends a line. *)
NoString == <<-1>>
Bom == <<12, 11, 10>>
Shebang == <<6, 1, 5>>
Str(n) == [x \in 1..n |-> x % 5]
Leaf == [source |-> Str(3), from |-> 2, to |-> 3, params |-> 1, vararg |-> 0, max |-> 2,
         code |-> <<17, 255>>, k |-> <<>>, ups |-> <<[instack |-> 1, idx |-> 0]>>, p |-> <<>>,
         lines |-> <<2, 3>>, locals |-> <<[name |-> Str(1), from |-> 0, to |-> 2]>>, names |-> <<Str(0)>>]
Literals == << [t |-> "nil", v |-> 0], [t |-> "bool", v |-> 1], [t |-> "flt", v |-> 33],
                [t |-> "int", v |-> 200], [t |-> "str", v |-> Str(0)] >>
MCThings ==
  {[kind |-> "C"],
   [kind |-> "Lua", proto |-> Leaf],
   [kind |-> "Lua", proto |-> [Leaf EXCEPT !.source = NoString, !.ups = <<>>, !.names = <<>>, !.k = Literals]],
   [kind |-> "Lua", proto |-> [Leaf EXCEPT !.k = <<[t |-> "str", v |-> Str(13)], [t |-> "str", v |-> Str(14)],
                                                  [t |-> "str", v |-> Str(15)]>>,
                               !.ups = @ \o @, !.p = <<Leaf, Leaf>>]],
   [kind |-> "text", text |-> <<>>], [kind |-> "text", text |-> <<1, 5, 2>>],
   [kind |-> "text", text |-> <<6, 1>>], [kind |-> "text", text |-> <<6, 1, 5, 2>>], [kind |-> "text", text |-> <<5, 12>>]}
Modes == {"b", "t", "bt"}
MCLoads ==
  {[way |-> "string", mode |-> m, env |-> e] : m \in Modes, e \in BOOLEAN}
  \cup {[way |-> "reader", mode |-> m, env |-> FALSE, size |-> n, stop |-> "no", at |-> 0] : m \in Modes, n \in {1, 2, 40}}
  \cup {[way |-> "reader", mode |-> m, env |-> FALSE, size |-> 3, stop |-> s, at |-> y] :
          m \in Modes, s \in {"end", "bad"}, y \in {0, 1, 4, 9, 99}}
  \cup {[way |-> "file", mode |-> m, env |-> FALSE, mark |-> SubSeq(Bom, 1, n), comment |-> c, fails |-> "no"] :
          m \in Modes, n \in {0, 3}, c \in {<<>>, Shebang}}
  \cup {[way |-> "file", mode |-> "bt", env |-> TRUE, mark |-> SubSeq(Bom, 1, n), comment |-> c, fails |-> "no"] :
          n \in 1..2, c \in {<<1>>, <<7>>}}
  \cup {[way |-> "file", mode |-> "bt", env |-> FALSE, mark |-> <<>>, comment |-> c, fails |-> f] :
          c \in {<<>>, Shebang}, f \in {"open", "reopen", "read"}}
MCPlain ==
  {[way |-> "string", mode |-> "bt", env |-> FALSE],
   [way |-> "reader", mode |-> "bt", env |-> FALSE, size |-> 3, stop |-> "bad", at |-> 9],
   [way |-> "file", mode |-> "bt", env |-> FALSE, mark |-> Bom, comment |-> Shebang, fails |-> "no"]}

D == INSTANCE Chunk WITH
       Base <- 16, BufSize <- 4, Things <- MCThings, Loads <- MCLoads, Plain <- MCPlain

\* What is loaded is what was dumped, or the error that says why not (lundump.c).
LoadsWhatWasDumped == half = "chunk" => D!LoadsWhatWasDumped

----------------------------------------------------------------------------
(* A submodule in the library of its root, a Lua module, a library with the *)
(* old name of its function, one without its function, and a file that is  *)
(* no library.                                                              *)
MCNames == {<<"a", ".", "b">>, <<"c">>, <<"v", "-", "d">>, <<"m">>, <<"p">>}
MCLPath == <<"?.lua", "?/init.lua">>
MCCPath == <<"?.so">>
SO(name) == <<"?.so", name>>
MCChunks == {<<"?/init.lua", <<"c">>>>}
MCOthers == {SO(<<"p">>)}
MCSymbols == [f \in {SO(<<"a">>), SO(<<"v", "-", "d">>), SO(<<"m">>)} |->
   CASE f = SO(<<"a">>) -> {<<"a", "_", "b">>} [] f = SO(<<"m">>) -> {<<"n">>} [] OTHER -> {<<"d">>}]

----------------------------------------------------------------------------
(* One of them is run; the others stay where they began.                    *)
sorting == <<a, key, honest, pc, lo, up, p, i, j, piv, rnd, stack>>
table == <<t, cur, trav, seen, map>>
matching == <<call, src, last, found, outcome>>
loading == <<thing, strip, stage, chunk, damage, how, result>>

NoCase == Call(Way("find", TRUE, "", 0), <<>>, <<>>)

MCInit ==
  /\ half \in {"table", "sort", "patterns", "chunk", "require"}
  /\ half = "sort" \/ (honest = FALSE /\ key = [x \in 1..N |-> 1])
  /\ half = "patterns" \/ call = NoCase
  /\ half = "chunk" \/ (thing = [kind |-> "C"] /\ strip = FALSE)
  /\ Init /\ T!Init /\ map = T!Contents /\ P!Init /\ D!Init /\ LibInit
  /\ half # "table" => t = T!Resize(T!Empty, 0, 4)

Sorting == half = "sort" /\ Next /\ UNCHANGED <<half, table, matching, loading, libvars>>
Using == half = "table" /\ T!Next /\ map' = T!Contents' /\ UNCHANGED <<half, sorting, matching, loading, libvars>>
Matching == half = "patterns" /\ P!Next /\ UNCHANGED <<half, sorting, table, loading, libvars>>
Loading == half = "chunk" /\ D!Next /\ UNCHANGED <<half, sorting, table, matching, libvars>>
Requiring == half = "require" /\ LibNext /\ UNCHANGED <<half, sorting, table, matching, loading>>

MCSpec ==
  /\ MCInit
  /\ [][Sorting \/ Using \/ Matching \/ Loading \/ Requiring]_<<half, sorting, table, matching, loading, libvars>>
=============================================================================
