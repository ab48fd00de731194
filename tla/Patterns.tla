------------------------------ MODULE Patterns -----------------------------
(***************************************************************************)
(* Pattern matching of the string library (lstrlib.c): the backtracking    *)
(* matcher, which keeps its captures in one array and undoes them when it  *)
(* fails, and find, gmatch and gsub around it.                             *)
(*                                                                         *)
(* A pattern is the sequence of its items, a single character one with the *)
(* set of characters it admits; how items are spelled is left out.  A      *)
(* position is the index of the character after it, 0 that of no match.    *)
(***************************************************************************)
EXTENDS Integers, Sequences, SequencesExt, FiniteSets, FiniteSetsExt

CONSTANTS
  Cases,        \* what is matched: the call, the pattern, the subject
  MaxCaptures,  \* LUA_MAXCAPTURES
  MaxDepth      \* MAXCCALLS

VARIABLES
  call,    \* of Cases: op, pat, subj, init, anchor, plain, and for gsub repl and max
  src,     \* position in the subject
  last,    \* end of the last match, 0 before
  found,   \* the matches so far: where from, up to where, the captures
  outcome  \* "running", "found", "none", "limit", or an error

vars == <<call, src, last, found, outcome>>

pat == call.pat
subj == call.subj
End == Len(subj) + 1
Unfinished == -1
Position == -2
Zero == "0"             \* the character before and after the subject
CharAt(s) == IF s \in DOMAIN subj THEN subj[s] ELSE Zero

Yes(s, cap) == [s |-> s, cap |-> cap, err |-> "none"]
No(cap) == Yes(0, cap)
Error(msg) == [s |-> 0, cap |-> <<>>, err |-> msg]
Failed(r) == r.s = 0 /\ r.err = "none"

----------------------------------------------------------------------------
(* The matcher: match(cap, s, p) with d more calls of itself allowed.      *)

RECURSIVE Match(_, _, _, _), Go(_, _, _, _), MaxExpand(_, _, _, _, _), MinExpand(_, _, _, _)

SingleMatch(s, p) == s < End /\ subj[s] \in pat[p].set

\* Mutant of StartCapture: a capture is kept when what follows it fails.
StartCaptureKeeping(cap, s, p, what, d) ==
  IF Len(cap) >= MaxCaptures THEN Error("too many captures")
  ELSE Match(Append(cap, [init |-> s, len |-> what]), s, p + 1, d)

StartCapture(cap, s, p, what, d) ==
  LET r == Match(Append(cap, [init |-> s, len |-> what]), s, p + 1, d)
  IN  IF Len(cap) >= MaxCaptures THEN Error("too many captures")
      ELSE IF Failed(r) THEN [r EXCEPT !.cap = Front(@)] ELSE r

EndCapture(cap, s, p, d) ==
  LET open == {l \in DOMAIN cap : cap[l].len = Unfinished}
      l == Max(open)
      r == Match([cap EXCEPT ![l].len = s - cap[l].init], s, p + 1, d)
  IN  IF open = {} THEN Error("invalid pattern capture")
      ELSE IF Failed(r) THEN [r EXCEPT !.cap[l].len = Unfinished] ELSE r

MatchCapture(cap, s, l) ==
  LET c == cap[l]
  IN  IF l > Len(cap) \/ c.len = Unfinished THEN Error("invalid capture index")
      ELSE IF /\ c.len # Position /\ s + c.len <= End
              /\ SubSeq(subj, s, s + c.len - 1) = SubSeq(subj, c.init, c.init + c.len - 1)
      THEN Yes(s + c.len, cap) ELSE No(cap)

\* The position behind the balanced text at s, if there is one.
Excess(x, y, s, e) ==
  1 + Cardinality({i \in s + 1..e : subj[i] = x /\ x # y}) - Cardinality({i \in s + 1..e : subj[i] = y})
MatchBalance(s, x, y) ==
  LET ends == {e \in s + 1..Len(subj) : subj[e] = y /\ Excess(x, y, s, e) = 0}
  IN  IF CharAt(s) # x \/ ends = {} THEN 0 ELSE Min(ends) + 1

\* As many as there are first, and one less each time the rest fails.
Most(s, p) == Max({n \in 0..End - s : \A i \in s..s + n - 1 : SingleMatch(i, p)})
MaxExpand(cap, s, p, n, d) ==
  LET r == Match(cap, s + n, p + 1, d)
  IN  IF Failed(r) /\ n > 0 THEN MaxExpand(r.cap, s, p, n - 1, d) ELSE r
MinExpand(cap, s, p, d) ==
  LET r == Match(cap, s, p + 1, d)
  IN  IF Failed(r) /\ SingleMatch(s, p) THEN MinExpand(r.cap, s + 1, p, d) ELSE r

SingleItem(cap, s, p, d) ==
  LET suffix == pat[p].suffix
  IN  IF ~ SingleMatch(s, p)
      THEN IF suffix \in {"*", "?", "-"} THEN Go(cap, s, p + 1, d) ELSE No(cap)
      ELSE CASE suffix = "?" -> LET r == Match(cap, s + 1, p + 1, d)
                                IN  IF Failed(r) THEN Go(r.cap, s, p + 1, d) ELSE r
             [] suffix = "+" -> MaxExpand(cap, s + 1, p, Most(s + 1, p), d)
             [] suffix = "*" -> MaxExpand(cap, s, p, Most(s, p), d)
             [] suffix = "-" -> MinExpand(cap, s, p, d)
             [] OTHER -> Go(cap, s + 1, p + 1, d)

\* The loop of match, on the items that need no call of it.
Go(cap, s, p, d) ==
  IF p > Len(pat) THEN Yes(s, cap)
  ELSE LET item == pat[p]
           to == CASE item.what = "balance" -> Yes(MatchBalance(s, item.x, item.y), cap)
                   [] item.what = "ref" -> MatchCapture(cap, s, item.l)
                   [] item.what = "frontier" ->
                        IF CharAt(s - 1) \notin item.set /\ CharAt(s) \in item.set
                        THEN Yes(s, cap) ELSE No(cap)
       IN  CASE item.what = "open" -> StartCapture(cap, s, p, Unfinished, d)
             [] item.what = "pos" -> StartCapture(cap, s, p, Position, d)
             [] item.what = "close" -> EndCapture(cap, s, p, d)
             [] item.what = "end" -> IF s = End THEN Yes(s, cap) ELSE No(cap)
             [] item.what = "single" -> SingleItem(cap, s, p, d)
             [] OTHER -> IF to.s = 0 THEN to ELSE Go(to.cap, to.s, p + 1, d)

Match(cap, s, p, d) == IF d = 0 THEN Error("pattern too complex") ELSE Go(cap, s, p, d - 1)

\* reprepstate, and the match of the whole pattern.
Try(s) == Match(<<>>, s, 1, MaxDepth)

\* push_captures of those a caller asks for.
Pushed(r, n) == IF \E l \in 1..Min({n, Len(r.cap)}) : r.cap[l].len = Unfinished
                THEN "unfinished capture" ELSE "none"

----------------------------------------------------------------------------
(* The callers.                                                            *)

Report(r, s) == found' = Append(found, [from |-> s, to |-> r.s, cap |-> r.cap])
Raise(msg) == outcome' = msg /\ UNCHANGED <<src, last, found>>

\* posrelat, and the first position a third argument of find stands for.
From == LET at == IF call.init >= 0 THEN call.init
                  ELSE IF - call.init > Len(subj) THEN 0 ELSE End + call.init
        IN  Max({at, 1})

\* lmemfind of a text: where it stands, at src or behind it.
PlainFind == {s \in src..End - Len(pat) : \A k \in DOMAIN pat : SingleMatch(s + k - 1, k)}

\* find, and match, which is never plain.
Find ==
  /\ call.op = "find" /\ outcome = "running"
  /\ LET r == Try(src)
         s == Min(PlainFind)
     IN  IF src > End \/ (call.plain /\ PlainFind = {})
         THEN outcome' = "none" /\ UNCHANGED <<src, last, found>>
         ELSE IF call.plain
         THEN /\ Report(Yes(s + Len(pat), <<>>), s)
              /\ outcome' = "found" /\ src' = s /\ UNCHANGED last
         ELSE IF r.err # "none" THEN Raise(r.err)
         ELSE IF r.s # 0
         THEN IF Pushed(r, MaxCaptures) # "none" THEN Raise(Pushed(r, MaxCaptures))
              ELSE Report(r, src) /\ outcome' = "found" /\ UNCHANGED <<src, last>>
         ELSE IF call.anchor \/ src = End THEN outcome' = "none" /\ UNCHANGED <<src, last, found>>
         ELSE src' = src + 1 /\ UNCHANGED <<last, found, outcome>>
  /\ UNCHANGED call

\* Mutant of Stops: an empty match is found again where the last one ended.
StopsAgain(r) == r.err # "none" \/ r.s # 0
\* A match that ends where the last one did is none.
Stops(r) == r.err # "none" \/ (r.s # 0 /\ r.s # last)

\* A call of the iterator.
Gmatch ==
  /\ call.op = "gmatch" /\ outcome = "running"
  /\ LET stops == {s \in src..End : Stops(Try(s))}
         s == Min(stops)
         r == Try(s)
     IN  IF stops = {} THEN outcome' = "none" /\ UNCHANGED <<src, last, found>>
         ELSE IF r.err # "none" THEN Raise(r.err)
         ELSE IF Pushed(r, MaxCaptures) # "none" THEN Raise(Pushed(r, MaxCaptures))
         ELSE Report(r, s) /\ src' = r.s /\ last' = r.s /\ UNCHANGED outcome
  /\ UNCHANGED call

\* add_value: how many captures each kind of replacement asks for.
Asked == CASE call.repl = "text" -> 0 [] call.repl = "function" -> MaxCaptures [] OTHER -> 1

\* A replacement, or a character that is kept.
Gsub ==
  /\ call.op = "gsub" /\ outcome = "running"
  /\ LET r == Try(src)
     IN  IF Len(found) = call.max THEN outcome' = "limit" /\ UNCHANGED <<src, last, found>>
         ELSE IF r.err # "none" THEN Raise(r.err)
         ELSE IF Stops(r)
         THEN IF Pushed(r, Asked) # "none" THEN Raise(Pushed(r, Asked))
              ELSE \/ /\ Report(r, src) /\ src' = r.s /\ last' = r.s
                      /\ outcome' = IF call.anchor THEN "limit" ELSE "running"
                   \/ call.repl \in {"function", "table"} /\ Raise("invalid replacement value")
         ELSE IF src = End THEN outcome' = "none" /\ UNCHANGED <<src, last, found>>
         ELSE /\ src' = src + 1 /\ UNCHANGED <<last, found>>
              /\ outcome' = IF call.anchor THEN "none" ELSE "running"
  /\ UNCHANGED call

Init == call \in Cases /\ src = From /\ last = 0 /\ found = <<>> /\ outcome = "running"
Next == Find \/ Gmatch \/ Gsub

----------------------------------------------------------------------------
(***************************************************************************)
(* What a pattern means: a way to match divides the subject among the      *)
(* items, each of which admits what it gets, and the match is the way that *)
(* comes first when the items, from the left, take as much as they can, or *)
(* as little for "-".                                                      *)
(***************************************************************************)
Items(p, what) == {k \in 1..p : pat[k].what \in what}
Opening(l) == CHOOSE k \in Items(Len(pat), {"open", "pos"}) : Cardinality(Items(k, {"open", "pos"})) = l
Between(o, c, what) == Cardinality({k \in o..c : pat[k].what = what})
Closing(o) == {c \in o..Len(pat) : Between(o, c, "open") = Between(o, c, "close")}
Captures == Cardinality(Items(Len(pat), {"open", "pos"}))

WellFormed ==
  /\ \A p \in DOMAIN pat : Between(1, p, "open") >= Between(1, p, "close")
  /\ Between(1, Len(pat), "open") = Between(1, Len(pat), "close")
  /\ \A p \in DOMAIN pat : pat[p].what = "ref" =>
       /\ pat[p].l <= Cardinality(Items(p, {"open", "pos"}))
       /\ pat[Opening(pat[p].l)].what = "open" => Min(Closing(Opening(pat[p].l))) < p
  /\ Captures <= MaxCaptures

\* Where item k is, on the way that begins at i and has the ends given.
Start(k, i, ends) == IF k = 1 THEN i ELSE ends[k - 1]
CaptureOf(l, i, ends) ==
  LET o == Opening(l)
  IN  [init |-> Start(o, i, ends),
       len |-> IF pat[o].what = "pos" THEN Position
               ELSE ends[Min(Closing(o))] - Start(o, i, ends)]

Admits(k, i, ends, e) ==
  LET item == pat[k]
      s == Start(k, i, ends)
      text == {subj[n] : n \in s..e - 1}
      c == CaptureOf(item.l, i, ends)
  IN  CASE item.what = "single" ->
             /\ text \subseteq item.set
             /\ e - s \in CASE item.suffix = "" -> {1} [] item.suffix = "?" -> {0, 1}
                            [] item.suffix = "+" -> 1..End [] OTHER -> 0..End
        [] item.what = "end" -> e = s /\ s = End
        [] item.what = "frontier" -> e = s /\ CharAt(s - 1) \notin item.set /\ CharAt(s) \in item.set
        [] item.what = "balance" ->
             /\ e > s + 1 /\ subj[s] = item.x /\ subj[e - 1] = item.y
             /\ Excess(item.x, item.y, s, e - 1) = 0
             /\ \A n \in s + 1..e - 2 : Excess(item.x, item.y, s, n) > 0
        [] item.what = "ref" ->
             c.len # Position /\ SubSeq(subj, s, e - 1) = SubSeq(subj, c.init, c.init + c.len - 1)
        [] OTHER -> e = s

RECURSIVE Ways(_, _)
Ways(i, ends) ==
  LET k == Len(ends) + 1
  IN  IF k > Len(pat) THEN {ends}
      ELSE UNION {Ways(i, Append(ends, e)) : e \in {x \in Start(k, i, ends)..End : Admits(k, i, ends, x)}}
Before(u, v) ==
  \E k \in DOMAIN pat : /\ SubSeq(u, 1, k - 1) = SubSeq(v, 1, k - 1)
                        /\ IF pat[k].what = "single" /\ pat[k].suffix = "-" THEN u[k] < v[k] ELSE u[k] > v[k]
Meant(i) ==
  LET ways == Ways(i, <<>>)
      best == CHOOSE u \in ways : \A v \in ways : u = v \/ Before(u, v)
  IN  IF ways = {} THEN [from |-> i, to |-> 0, cap |-> <<>>]
      ELSE [from |-> i, to |-> Start(Len(pat) + 1, i, best),
            cap |-> [l \in 1..Captures |-> CaptureOf(l, i, best)]]

\* The starts that have been tried, and those that lie inside a match.
Tried == {i \in From..IF outcome = "none" THEN End ELSE IF outcome = "found" THEN src ELSE src - 1 :
            call.anchor => i = From}
Inside == UNION {m.from + 1..m.to - 1 : m \in ToSet(found)}

\* The items for which match calls itself.
Deep == {k \in DOMAIN pat : pat[k].what \in {"open", "pos", "close"}
                              \/ (pat[k].what = "single" /\ pat[k].suffix # "")}

(***************************************************************************)
(* What find, gmatch and gsub report are the matches the pattern means,    *)
(* with their captures, none of them before the position asked for; no     *)
(* match between them is passed over but an empty one where another ended; *)
(* there are at most as many as there are starts; and a well-formed        *)
(* pattern fails only if it is too deep.                                   *)
(***************************************************************************)
MatchesAsMeant ==
  WellFormed =>
    /\ \A n \in DOMAIN found : found[n] = Meant(found[n].from)
    /\ \A m \in ToSet(found) :
         IF call.init >= 0 THEN m.from >= call.init ELSE End - m.from <= - call.init
    /\ \A i \in Tried \ Inside :
         \/ \E m \in ToSet(found) : m.from = i
         \/ Meant(i).to \in {0} \cup ({i} \cap {m.to : m \in ToSet(found)})
    /\ Len(found) <= End
    /\ outcome \in {"running", "found", "none", "limit", "invalid replacement value"}
         \/ (outcome = "pattern too complex" /\ Cardinality(Deep) >= MaxDepth)
=============================================================================
