-------------------------------- MODULE Chunk ------------------------------
(***************************************************************************)
(* Precompiled chunks: a function is dumped (ldump.c), kept somewhere, and *)
(* loaded (lundump.c) from a string, a file or through a function that     *)
(* hands it out in pieces (lzio.c); the same entrances take text.          *)
(*                                                                         *)
(* A byte is less than Base; what takes four or eight bytes takes two.     *)
(* What the parser makes of a text is the text it has seen.                *)
(***************************************************************************)
EXTENDS Integers, Sequences, SequencesExt, TLC

CONSTANTS
  Base,     \* number of bytes
  BufSize,  \* BUFSIZ, of getF
  Things,   \* what is dumped or written: Lua functions, C functions and texts
  Loads,    \* ways to load: a string, pieces a function returns, or a file
  Plain     \* those tried on damaged bytes

VARIABLES
  thing,    \* of Things
  strip,    \* whether it is dumped without debug information
  stage,    \* "dump", "kept", "load" or "done"
  chunk,    \* the bytes
  damage,   \* what happened to them: kind, part of the header, length before
  how,      \* of Loads
  result    \* the function or the error

vars == <<thing, strip, stage, chunk, damage, how, result>>

Big == Base - 1     \* 0xFF
Null == <<-1>>      \* no string
Esc == 7            \* the first byte of LUA_SIGNATURE; no other but "#", the end
Hash == 6           \* of a line and those of the mark matters
NewLine == 5
BOM == <<12, 11, 10>>
Upto(s, n) == SubSeq(s, 1, Min({n, Len(s)}))
From(s, n) == SubSeq(s, n, Len(s))

----------------------------------------------------------------------------
(* Dump.                                                                   *)

DumpInt(x) == <<x % Base, x \div Base>>
\* Mutant of DumpString: a size that is the mark of a long string takes one byte.
DumpStringShort(s) ==
  IF s = Null THEN <<0>>
  ELSE (IF Len(s) + 1 <= Big THEN <<Len(s) + 1>> ELSE <<Big>> \o DumpInt(Len(s) + 1)) \o s
DumpString(s) ==
  IF s = Null THEN <<0>>
  ELSE (IF Len(s) + 1 < Big THEN <<Len(s) + 1>> ELSE <<Big>> \o DumpInt(Len(s) + 1)) \o s
DumpVector(xs, Dump(_)) == DumpInt(Len(xs)) \o FlattenSeq([i \in DOMAIN xs |-> Dump(xs[i])])

Tag == [nil |-> 0, bool |-> 1, flt |-> 3, str |-> 4, int |-> 13]
DumpConstant(o) ==
  <<Tag[o.t]>> \o CASE o.t = "nil" -> <<>>
                    [] o.t = "bool" -> <<o.v>>
                    [] o.t = "str" -> DumpString(o.v)
                    [] OTHER -> DumpInt(o.v)
DumpUpvalue(u) == <<u.instack, u.idx>>
DumpLocal(v) == DumpString(v.name) \o DumpInt(v.from) \o DumpInt(v.to)
DumpDebug(f, s) ==
  IF s THEN DumpInt(0) \o DumpInt(0) \o DumpInt(0)
  ELSE DumpVector(f.lines, DumpInt) \o DumpVector(f.locals, DumpLocal)
       \o DumpVector(f.names, DumpString)

RECURSIVE DumpFunction(_, _, _)
DumpFunction(f, psource, s) ==
  DumpString(IF s \/ f.source = psource THEN Null ELSE f.source)
  \o DumpInt(f.from) \o DumpInt(f.to) \o <<f.params, f.vararg, f.max>>
  \o DumpVector(f.code, DumpInt) \o DumpVector(f.k, DumpConstant) \o DumpVector(f.ups, DumpUpvalue)
  \o DumpVector(f.p, LAMBDA g : DumpFunction(g, f.source, s)) \o DumpDebug(f, s)

\* The parts of the header, and what is said of one that differs.
Header ==
  << <<<<Esc, 1>>, "not a">>, <<<<2>>, "version mismatch in">>, <<<<0>>, "format mismatch in">>,
     <<<<3, 4>>, "corrupted">> >>
  \o [i \in 1..5 |-> <<<<2>>, "size mismatch in">>]
  \o << <<DumpInt(100), "endianness mismatch in">>, <<DumpInt(101), "float format mismatch in">> >>
DumpHeader == FlattenSeq([i \in DOMAIN Header |-> Header[i][1]])

UDump(f, s) == DumpHeader \o <<Len(f.ups)>> \o DumpFunction(f, Null, s)

----------------------------------------------------------------------------
(* Buffered streams.  A stream has the bytes of the buffer and the pieces  *)
(* its reader has still to give: NULL and an empty piece are the end of    *)
(* it; Bad is a value that is no string.                                   *)
Bad == <<-2>>

RECURSIVE ZRead(_, _, _)
ZRead(z, n, got) ==
  IF n <= Len(z.buf) THEN [b |-> got \o Upto(z.buf, n), z |-> [z EXCEPT !.buf = From(@, n + 1)], err |-> "none"]
  ELSE IF z.pieces = <<>> \/ Head(z.pieces) = <<>>
  THEN [b |-> got \o z.buf, z |-> [z EXCEPT !.buf = <<>>], err |-> "truncated"]
  ELSE IF Head(z.pieces) = Bad THEN [b |-> got, z |-> z, err |-> "reader"]
  ELSE ZRead([buf |-> Head(z.pieces), pieces |-> Tail(z.pieces)], n - Len(z.buf), got \o z.buf)

----------------------------------------------------------------------------
(* Undump.  A load state has the stream, the value read last, and the      *)
(* function so far; after an error nothing more is read.                   *)

Zeros(n) == [i \in 1..n |-> 0]
LoadBlock(S, n) ==
  IF S.err # "none" THEN [S EXCEPT !.v = Zeros(n)]
  ELSE LET r == ZRead(S.z, n, <<>>)
       IN  IF r.err # "none" THEN [S EXCEPT !.v = Zeros(n), !.err = r.err]
           ELSE [S EXCEPT !.v = r.b, !.z = r.z]
Value(S, F(_)) == [S EXCEPT !.v = F(@)]
LoadByte(S) == Value(LoadBlock(S, 1), LAMBDA b : b[1])
LoadInt(S) == Value(LoadBlock(S, 2), LAMBDA b : b[1] + Base * b[2])
LoadText(S) == IF S.v = 0 THEN Value(S, LAMBDA n : Null) ELSE LoadBlock(S, S.v - 1)
LoadLong(S) == IF S.v = Big THEN LoadInt(S) ELSE S
LoadString(S) == LoadText(LoadLong(LoadByte(S)))

\* n times Load, the values in a sequence
LoadEach(S, n, Load(_)) ==
  LET One(acc, T) == [T EXCEPT !.v = Append(acc, @)]
  IN  FoldLeft(LAMBDA T, i : IF T.err # "none" THEN T ELSE One(T.v, Load(T)),
               [S EXCEPT !.v = <<>>], [i \in 1..n |-> i])
LoadVector(S, Load(_)) == LET T == LoadInt(S) IN LoadEach(T, T.v, Load)

LoadConstant(S) ==
  LET T == LoadByte(S)
      Typed(U, t) == [U EXCEPT !.v = [t |-> t, v |-> @]]
  IN  CASE T.v = Tag.bool -> Typed(LoadByte(T), "bool") [] T.v = Tag.flt -> Typed(LoadInt(T), "flt")
        [] T.v = Tag.int -> Typed(LoadInt(T), "int") [] T.v = Tag.str -> Typed(LoadString(T), "str")
        [] OTHER -> Value(T, LAMBDA t : [t |-> "nil", v |-> 0])
LoadPair(S, Load(_), Pair(_, _)) ==
  LET With(first, T) == [T EXCEPT !.v = Pair(first, @)]
      Then(T) == With(T.v, Load(T))
  IN  Then(Load(S))
LoadUpvalue(S) == LoadPair(S, LoadByte, LAMBDA x, y : [instack |-> x, idx |-> y])
LoadLocal(S) ==
  LET Named(s, T) == [T EXCEPT !.v = [name |-> s, from |-> @[1], to |-> @[2]]]
      Then(T) == Named(T.v, LoadPair(T, LoadInt, LAMBDA x, y : <<x, y>>))
  IN  Then(LoadString(S))

Fields == <<"source", "from", "to", "params", "vararg", "max", "code", "k", "ups", "p", "lines",
            "locals", "names">>

RECURSIVE LoadFunction(_, _)
LoadField(S, field, psource) ==
  CASE field = "source" -> Value(LoadString(S), LAMBDA s : IF s = Null THEN psource ELSE s)
    [] field \in {"from", "to"} -> LoadInt(S)
    [] field \in {"params", "vararg", "max"} -> LoadByte(S)
    [] field \in {"code", "lines"} -> LoadVector(S, LoadInt)
    [] field = "k" -> LoadVector(S, LoadConstant)
    [] field = "ups" -> LoadVector(S, LoadUpvalue)
    [] field = "p" -> LoadVector(S, LAMBDA T : LoadFunction(T, S.f.source))
    [] field = "locals" -> LoadVector(S, LoadLocal)
    [] OTHER -> LoadVector(S, LoadString)
Put(field, f, S) == [S EXCEPT !.f = (field :> S.v) @@ f]
LoadFunction(S, psource) ==
  LET T == FoldLeft(LAMBDA U, field : IF U.err # "none" THEN U
                                      ELSE Put(field, U.f, LoadField(U, field, psource)),
                    [S EXCEPT !.f = <<>>], Fields)
  IN  [T EXCEPT !.v = T.f, !.f = S.f]

\* All but the first byte, which has been looked at.
CheckPart(S, bytes, msg) ==
  LET T == LoadBlock(S, Len(bytes))
  IN  IF S.err = "none" /\ T.err = "none" /\ T.v # bytes THEN [T EXCEPT !.err = msg] ELSE T
CheckHeader(S) ==
  FoldLeft(LAMBDA T, part : CheckPart(T, part[1], part[2]), S,
           << <<Tail(Header[1][1]), Header[1][2]>> >> \o Tail(Header))

Undump(z) ==
  LET S == LoadByte(CheckHeader([z |-> z, v |-> 0, f |-> <<>>, err |-> "none"]))
      T == LoadFunction(S, Null)
  IN  IF T.err # "none" THEN [err |-> T.err]
      ELSE [err |-> "none", proto |-> T.v, ups |-> [i \in 1..S.v |-> "nil"]]

----------------------------------------------------------------------------
(* luaD_protectedparser, lua_load and their callers.                       *)

\* The parser takes every byte, up to the end or a piece that is no string.
AllOf(z, seen) ==
  LET ends == {n \in DOMAIN z.pieces : z.pieces[n] \in {<<>>, Bad}}
      last == IF ends = {} THEN Len(z.pieces) ELSE Min(ends) - 1
  IN  [err |-> IF last < Len(z.pieces) /\ z.pieces[last + 1] = Bad THEN "reader" ELSE "none",
       text |-> seen \o z.buf \o FlattenSeq(Upto(z.pieces, last))]
ParserOn(z, c) ==
  LET r == AllOf(z, c)
  IN  IF r.err # "none" THEN [err |-> r.err] ELSE [err |-> "none", text |-> r.text, ups |-> <<"nil">>]

FParser(z, mode) ==
  LET r == ZRead(z, 1, <<>>)
  IN  IF r.err = "reader" THEN [err |-> "reader"]
      ELSE IF r.b = <<Esc>>
      THEN IF mode = "t" THEN [err |-> "mode"] ELSE Undump(r.z)
      ELSE IF mode = "b" THEN [err |-> "mode"] ELSE ParserOn(r.z, r.b)

SetFirst(r, what) ==
  IF r.err = "none" /\ r.ups # <<>> THEN [r EXCEPT !.ups[1] = what] ELSE r
LuaLoad(pieces, mode) == SetFirst(FParser([buf |-> <<>>, pieces |-> pieces], mode), "globals")
LoadAux(r, env) == IF env THEN SetFirst(r, "env") ELSE r

\* The characters skipBOM keeps, and the number of those it has read.
Marked(s) == Max({n \in 0..3 : n <= Len(s) /\ Upto(s, n) = Upto(BOM, n)})
Preread(s) == IF Marked(s) = 3 THEN <<>> ELSE Upto(s, Marked(s))
\* What is left after skipcomment, without the character it has looked at.
AfterComment(s) ==
  LET rest == From(s, Marked(s) + 1)
      ends == {n \in DOMAIN rest : rest[n] = NewLine}
  IN  IF rest = <<>> \/ rest[1] # Hash THEN rest
      ELSE IF ends = {} THEN <<>> ELSE From(rest, Min(ends) + 1)
HasComment(s) == Len(s) > Marked(s) /\ s[Marked(s) + 1] = Hash

Blocks(s, n) ==
  [i \in 1..(Len(s) + n - 1) \div n |-> SubSeq(s, (i - 1) * n + 1, Min({i * n, Len(s)}))]
\* luaL_loadfilex: c is the first character after mark and comment; a binary
\* file is opened again, and nothing stands for its comment.
FirstOf(s) == Upto(AfterComment(s), 1)
LineOf(s) == IF HasComment(s) /\ FirstOf(s) # <<Esc>> THEN <<NewLine>> ELSE <<>>
Portion(s) == Preread(s) \o LineOf(s) \o FirstOf(s)
FilePieces(s) ==
  (IF Portion(s) = <<>> THEN <<>> ELSE <<Portion(s)>>) \o Blocks(From(AfterComment(s), 2), BufSize)
LoadFile(l, s) ==
  IF l.fails = "open" \/ (l.fails = "reopen" /\ FirstOf(s) = <<Esc>>) THEN [err |-> l.fails]
  ELSE IF l.fails = "read" THEN [err |-> "read"]
  ELSE LuaLoad(FilePieces(s), l.mode)

\* What generic_reader gets, call after call.
Given(l, pieces) ==
  IF l.stop = "no" THEN pieces
  ELSE Append(Upto(pieces, l.at), IF l.stop = "bad" THEN Bad ELSE <<>>)

----------------------------------------------------------------------------
(* The calls.                                                              *)

Init ==
  /\ thing \in Things /\ strip \in BOOLEAN /\ stage = "dump"
  /\ chunk = <<>> /\ how = [way |-> "none"] /\ result = [err |-> "none"]
  /\ damage = [kind |-> "none", part |-> 0, whole |-> 0]

\* string.dump
StrDump ==
  /\ stage = "dump" /\ thing.kind # "text"
  /\ IF thing.kind = "C"
     THEN /\ result' = [err |-> "unable to dump given function"] /\ stage' = "done"
          /\ UNCHANGED chunk
     ELSE /\ chunk' = UDump(thing.proto, strip) /\ stage' = "kept"
          /\ UNCHANGED result
  /\ UNCHANGED <<thing, strip, damage, how>>

\* A text somebody wrote.
Write ==
  /\ stage = "dump" /\ thing.kind = "text"
  /\ chunk' = thing.text /\ stage' = "kept"
  /\ UNCHANGED <<thing, strip, damage, how, result>>

Kept(kind, part, bytes) ==
  /\ stage = "kept" /\ stage' = "load"
  /\ chunk' = bytes /\ damage' = [kind |-> kind, part |-> part, whole |-> Len(chunk)]
  /\ UNCHANGED <<thing, strip, how, result>>

\* The bytes are kept, cut short, lengthened, or are those of another version.
Keep == Kept("none", 0, chunk)
Cut == \E n \in 0..(Len(chunk) - 1) : Kept("cut", 0, Upto(chunk, n))
Grow == Kept("grown", 0, Append(chunk, 0))
HeaderEnd(part) == Len(FlattenSeq([i \in 1..part |-> Header[i][1]]))
Foreign ==
  /\ thing.kind = "Lua"
  /\ \E part \in DOMAIN Header :
       Kept("foreign", part, [chunk EXCEPT ![HeaderEnd(part)] = (@ + 1) % Base])

Loaded(l, r) ==
  /\ stage = "load" /\ l \in Loads
  /\ damage.kind \in {"cut", "foreign"} => l \in Plain
  /\ stage' = "done" /\ how' = l /\ result' = LoadAux(r, l.env)
  /\ UNCHANGED <<thing, strip, chunk, damage>>

\* load with a string, load with a function, loadfile
LoadBuffer ==
  \E l \in Loads : l.way = "string" /\ Loaded(l, LuaLoad(IF chunk = <<>> THEN <<>> ELSE <<chunk>>, l.mode))
LoadReader ==
  \E l \in Loads : l.way = "reader" /\ Loaded(l, LuaLoad(Given(l, Blocks(chunk, l.size)), l.mode))
LoadFromFile ==
  \E l \in Loads : l.way = "file" /\ Loaded(l, LoadFile(l, l.mark \o l.comment \o chunk))

Done == stage = "done" /\ UNCHANGED vars

Next == StrDump \/ Write \/ Keep \/ Cut \/ Grow \/ Foreign \/ LoadBuffer \/ LoadReader \/ LoadFromFile \/ Done

Spec == Init /\ [][Next]_vars

----------------------------------------------------------------------------
(* What is promised.                                                       *)

RECURSIVE Stripped(_)
Stripped(f) ==
  [f EXCEPT !.source = Null, !.lines = <<>>, !.locals = <<>>, !.names = <<>>,
            !.p = [i \in DOMAIN @ |-> Stripped(@[i])]]

\* The text of a file: neither mark nor first line with "#"; but it keeps its
\* place, so that the lines have their numbers.
Body(file) == IF IsPrefix(BOM, file) THEN From(file, 4) ELSE file
TextOf(body) ==
  LET ends == {n \in DOMAIN body : body[n] = NewLine} \cup {Len(body)}
      rest == From(body, Min(ends) + 1)
  IN  IF body = <<>> \/ body[1] # Hash THEN body
      ELSE IF rest # <<>> /\ rest[1] = Esc THEN rest ELSE <<NewLine>> \o rest

Seen ==
  CASE how.way = "string" -> chunk
    [] how.way = "reader" -> IF how.stop = "no" THEN chunk ELSE Upto(chunk, how.at * how.size)
    [] OTHER -> TextOf(Body(how.mark \o how.comment \o chunk))
Binary(s) == s # <<>> /\ s[1] = Esc
Fails == how.way = "file" /\ how.fails # "no"
Interrupted == how.way = "reader" /\ how.stop = "bad"

Ups(n) == [i \in 1..n |-> IF i > 1 THEN "nil" ELSE IF how.env THEN "env" ELSE "globals"]
Expected(s) ==
  IF Interrupted /\ s = <<>> THEN [err |-> "reader"]
  ELSE IF how.mode = (IF Binary(s) THEN "t" ELSE "b") THEN [err |-> "mode"]
  ELSE IF ~Binary(s)
  THEN IF Interrupted THEN [err |-> "reader"] ELSE [err |-> "none", text |-> s, ups |-> Ups(1)]
  ELSE IF damage.kind = "foreign" /\ Len(s) >= HeaderEnd(damage.part)
  THEN [err |-> Header[damage.part][2]]
  ELSE IF Len(s) < damage.whole
  THEN [err |-> IF Interrupted THEN "reader" ELSE "truncated"]
  ELSE [err |-> "none", proto |-> IF strip THEN Stripped(thing.proto) ELSE thing.proto,
        ups |-> Ups(Len(thing.proto.ups))]

\* What load and loadfile return is what string.dump was given: the function
\* without its upvalues' values (the first is the environment), stripped or
\* not, whatever the size of the pieces it comes in; what is cut short, was
\* made by another version or is not of the kind the mode allows is refused
\* with the error that says so; a text reaches the parser whole (lundump.c,
\* lzio.c, ldo.c f_parser, lauxlib.c luaL_loadfilex).
LoadsWhatWasDumped ==
  stage = "done" =>
    IF thing.kind = "C" THEN result = [err |-> "unable to dump given function"]
    ELSE IF Fails /\ (how.fails # "reopen" \/ Binary(Seen)) THEN result = [err |-> how.fails]
    ELSE result = Expected(Seen)
=============================================================================
