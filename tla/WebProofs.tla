----------------------------- MODULE WebProofs -----------------------------
(***************************************************************************)
(* Theorems about Web, for every script of every client, every size of the *)
(* two buffers and any number of clients. What the server promises,        *)
(* AnswersWhole, is about what a client has received so far; that it stays *)
(* true is a matter of where the rest of the conversation is: in the       *)
(* socket, in header_buf, read and counted but not served, handed to the   *)
(* handler, or in io_buf. The inductive invariant is a description of all  *)
(* of these, for the client being served (Sessions) and for those that     *)
(* wait (Apart).                                                           *)
(***************************************************************************)
EXTENDS Web, SequenceTheorems, WellFoundedInduction, TLAPS

\* What a response may print, what may travel to the server, and the
\* connection.
Text == {"continue", "200", "400", "404", "length", "chunked", "server", "type", "close",
         "blank", "chunk", "data", "crlf", "last"} \cup {Data[n] : n \in DOMAIN Data}
Item == Request \cup {Line, Block}
Connection ==
  [used : BOOLEAN, sock : Clients \cup {None}, flags : SUBSET {"alive", "close", "chunked"},
   head : Seq(Item), req : Request \cup {NoRequest}, left : Nat, read : Nat, io : Seq(Text),
   depth : {0, 1}, blocks : BOOLEAN]

(***************************************************************************)
(* The types of the variables.                                             *)
(***************************************************************************)
TypeOK ==
  /\ script \in Scripts
  /\ phase \in [Clients -> {"idle", "open", "fin", "reset", "closed"}]
  /\ asked \in [Clients -> Nat]
  /\ rest \in [Clients -> Seq(Item)] /\ inbox \in [Clients -> Seq(Item)]
  /\ out \in [Clients -> Seq(Text)]
  /\ backlog \in Seq(Clients)
  /\ pc \in {"select", "accept", "recv", "parse", "continue", "serve", "discard", "respond",
             "after", "compact", "stopped", "killed"}
  /\ con \in Connection /\ say \in Seq(Text) /\ quit \in BOOLEAN

(***************************************************************************)
(* What each point of wby_update and its callees may rely on: a connection *)
(* to work for, an empty body count between requests, a request that was   *)
(* set up, and the nesting of wby_con_set_blocking.                        *)
(***************************************************************************)
Shape ==
  /\ \A c \in Clients : asked[c] <= Len(script[c])
  /\ Len(con.head) <= HeadMax
  /\ ~ con.used => con.sock = None
  /\ pc = "accept" => con.sock = None /\ backlog # << >>
  /\ pc = "select" /\ con.used => con.sock # None
  /\ pc \in {"recv", "parse", "continue", "discard", "respond"} => con.sock # None
  /\ pc \in {"recv", "parse"} => con.used
  /\ pc \in {"after", "compact"} /\ Alive => con.sock # None /\ con.used
  /\ pc \in {"select", "recv", "parse"} \/ (pc = "compact" /\ Alive)
       => con.read = 0 /\ con.left = 0 /\ con.depth = 0
  /\ pc \in {"continue", "serve"} => con.depth = 0
  /\ pc \in {"discard", "respond", "after"} => con.depth = 1
  /\ pc \in {"continue", "serve", "discard", "respond", "after"}
       => con.req \in Request /\ con.read <= con.req.body
  /\ pc \in {"continue", "serve", "discard", "respond", "after"} => con.used

----------------------------------------------------------------------------
(***************************************************************************)
(* What a client and the server may still have to say to one another. A    *)
(* client's k-th request is begun when no request before it ended the      *)
(* connection.                                                             *)
(***************************************************************************)
Open(c) == phase[c] = "open"

Begun(c, k) == \A m \in 1 .. (k - 1) : m \in DOMAIN script[c] /\ ~ IsLast(c, m)

\* Of request k the server has taken got items from the socket; the rest of
\* it, in order, lies in the inbox and with the client. A request that is
\* refused may be followed by another, of one that is served everything has
\* to be answered first.
InFlight(c, k, got) ==
  LET W == Wire(script[c][k])
  IN  \/ asked[c] = k - 1 /\ got = 0 /\ inbox[c] = << >> /\ rest[c] = << >>
      \/ /\ asked[c] >= k
         /\ \/ asked[c] > k /\ Refused(script[c][k]) /\ got + Len(inbox[c]) >= Len(W)
            \/ /\ asked[c] = k /\ got + Len(inbox[c]) + Len(rest[c]) = Len(W)
               /\ \A i \in DOMAIN rest[c] : rest[c][i] = W[got + Len(inbox[c]) + i]
         /\ \A i \in DOMAIN inbox[c] : got + i <= Len(W) => inbox[c][i] = W[got + i]

(***************************************************************************)
(* A client that never connected has asked and received nothing.           *)
(***************************************************************************)
Quiet ==
  \A c \in Clients : phase[c] = "idle" =>
    asked[c] = 0 /\ inbox[c] = << >> /\ rest[c] = << >> /\ out[c] = << >>

\* A client in the backlog that still is there has its first request ahead of
\* it, and comes once.
InBacklog(c) == \E i \in DOMAIN backlog : backlog[i] = c
Waiting(c) == c # con.sock /\ phase[c] # "idle" /\ (Open(c) => out[c] = << >> /\ InFlight(c, 1, 0))

Queued ==
  /\ \A i, j \in DOMAIN backlog : i # j => backlog[i] # backlog[j]
  /\ \A c \in Clients : InBacklog(c) => Waiting(c)
  /\ con.sock # None => phase[con.sock] # "idle"

\* Between requests and while a head comes in: all requests before k have
\* been answered in full, nothing is left in io_buf, and header_buf holds the
\* beginning of request k.
Reading(c, k) ==
  /\ con.flags = {"alive"} /\ con.io = << >>
  /\ Len(out[c]) = Len(Stream(c, k - 1))
  /\ InFlight(c, k, Len(con.head))
  /\ \A i \in DOMAIN con.head :
       i <= Len(Wire(script[c][k])) => con.head[i] = Wire(script[c][k])[i]

\* Items of an answer before its head: the 100 Continue.
Continued(r) == IF r.expect THEN 1 ELSE 0

\* Request k is the one that was set up, and it makes sense.
Serving(c, k) ==
  /\ k \in DOMAIN script[c] /\ ~ Refused(script[c][k]) /\ con.req = script[c][k]

\* Before its answer begins, all of a request is here or there: the blocks
\* that came with the head, those read and discarded, those in the socket and
\* those with the client add up to the body, and only a 100 Continue has been
\* sent.
InBody(c, k) ==
  /\ Serving(c, k) /\ con.flags = {"alive"} /\ con.io = << >> /\ asked[c] = k
  /\ con.left + con.read + Len(inbox[c]) + Len(rest[c]) = con.req.body
  /\ Len(out[c]) = Len(Stream(c, k - 1)) + (IF pc = "continue" THEN 0 ELSE Continued(con.req))
  /\ pc = "continue" => con.req.expect

\* When the connection goes on after request k, nothing of the next one has
\* been taken.
Following(c, k) == ~ IsLast(c, k) => InFlight(c, k + 1, 0)

\* The lines of the head, and the items on the wire once p of the pieces that
\* the handler and wby_response_begin print have been pushed: the last of them
\* is the data in its framing.
Lines(r) == Header(r) \o Closing(r)
PushedLen(r) == IF IsChunked(r) THEN Len(Data) + 3 ELSE Len(Data) + 1
Sent(r, p) ==
  Continued(r) + (IF p = Len(Lines(r)) + 2 THEN Len(Lines(r)) + PushedLen(r) ELSE p)

(***************************************************************************)
(* While an answer is printed: the client has received and io_buf holds,   *)
(* in this order, the beginning of what it is to receive, up to the p-th   *)
(* piece of this answer, and what is left to say are the other pieces.     *)
(* CHUNKED is set when the head has been printed.                          *)
(***************************************************************************)
Responding(c, k) ==
  LET r == con.req
      h == Len(Lines(r)) IN
  /\ Serving(c, k) /\ asked[c] >= k /\ Following(c, k)
  /\ "alive" \in con.flags /\ ("close" \in con.flags <=> r.close)
  /\ IsPrefix(out[c] \o con.io, Stream(c, Len(script[c])))
  /\ \E p \in 0 .. h + 2 :
       /\ Len(say) = h + 2 - p
       /\ \A i \in DOMAIN say : say[i] = Printed(r)[p + i]
       /\ "chunked" \in con.flags <=> p > h /\ IsChunked(r)
       /\ Len(out[c]) + Len(con.io) = Len(Stream(c, k - 1)) + Sent(r, p)

\* After wby_response_end: the answer is all there, io_buf is empty.
Answered(c, k) ==
  /\ Serving(c, k) /\ asked[c] >= k /\ Following(c, k) /\ ~ EndsIt(con.req)
  /\ con.flags = {"alive"} \cup (IF con.req.close THEN {"close"} ELSE {})
  /\ Len(out[c]) = Len(Stream(c, k))

(***************************************************************************)
(* Where a connection stands when k requests were begun on it, for each    *)
(* place the server may be at.                                             *)
(***************************************************************************)
Session(c, k) ==
  /\ Begun(c, k)
  /\ pc \in {"select", "recv", "parse"} \/ (pc = "compact" /\ Alive) => Reading(c, k)
  /\ pc \in {"continue", "serve", "discard"} => InBody(c, k)
  /\ pc = "respond" => Responding(c, k)
  /\ pc = "after" => Answered(c, k)

Sessions ==
  \A c \in Clients : c = con.sock /\ Open(c) => \E k \in Nat \ {0} : Session(c, k)

----------------------------------------------------------------------------
(***************************************************************************)
(* Sums over the natural numbers. The recursive function Joined is a       *)
(* CHOOSE; that it obeys its equation is shown from the well-foundedness   *)
(* of "less than": a least number without a partial sum cannot exist.      *)
(***************************************************************************)
LEMMA LeastNat ==
  ASSUME NEW T \in SUBSET Nat, T # {}
  PROVE  \E x \in T : \A y \in T : x <= y
<1> DEFINE R == {p \in Nat \X Nat : p[1] < p[2]}
<1>1. IsWellFoundedOn(R, Nat)
  BY NatLessThanWellFounded DEF OpToRel
<1>2. \A x, y \in Nat : y < x => <<y, x>> \in R
  OBVIOUS
<1> HIDE DEF R
<1>3. PICK x \in T : \A y \in T : ~ (<<y, x>> \in R)
  BY <1>1, WFMin, Zenon
<1>4. \A y \in T : ~ (y < x)
  BY <1>2, <1>3, Zenon
<1> QED
  BY <1>4, <1>3

\* Joined adds one piece at a time.
LEMMA JoinedEquation ==
  ASSUME NEW S, NEW p \in [Nat -> Seq(S)]
  PROVE  /\ Joined(p) \in [Nat -> Seq(S)]
         /\ Joined(p)[0] = << >>
         /\ \A n \in Nat \ {0} : Joined(p)[n] = Joined(p)[n - 1] \o p[n]
<1> DEFINE Is(f) == f = [n \in Nat |-> IF n = 0 THEN << >> ELSE f[n - 1] \o p[n]]
           Sum(f, n) == /\ f[0] = << >>
                        /\ \A m \in 1 .. n : f[m] = f[m - 1] \o p[m]
           T == {n \in Nat : \A f \in [0 .. n -> Seq(S)] : ~ Sum(f, n)}
           G == [n \in Nat |-> CHOOSE f \in [0 .. n -> Seq(S)] : Sum(f, n)]
           g == [n \in Nat |-> G[n][n]]
<1>1. ASSUME NEW n \in T PROVE FALSE
  <2>1. PICK x \in T : \A y \in T : x <= y
    <3>1. T \in SUBSET Nat /\ T # {} BY <1>1, Zenon
    <3> HIDE DEF T
    <3> QED BY <3>1, LeastNat, Zenon
  <2>2. x \in Nat /\ \A f \in [0 .. x -> Seq(S)] : ~ Sum(f, x) BY Zenon
  <2>3. x # 0
    <3>1. << >> \in Seq(S) BY EmptySeq
    <3>2. [m \in 0 .. 0 |-> << >>] \in [0 .. 0 -> Seq(S)] /\ Sum([m \in 0 .. 0 |-> << >>], 0) BY <3>1
    <3> QED BY <3>2, <2>2, Zenon
  <2>4. x - 1 \in Nat /\ x - 1 \notin T
    <3> HIDE DEF T
    <3> QED BY <2>1, <2>2, <2>3
  <2>5. PICK f \in [0 .. x - 1 -> Seq(S)] : Sum(f, x - 1)
    BY <2>4, Zenon
  <2> DEFINE h == [m \in 0 .. x |-> IF m = x THEN f[x - 1] \o p[x] ELSE f[m]]
  <2>6. f[x - 1] \o p[x] \in Seq(S)
    <3>1. f[x - 1] \in Seq(S) /\ p[x] \in Seq(S) BY <2>2, <2>4
    <3> QED BY <3>1, ConcatProperties
  <2>7. h \in [0 .. x -> Seq(S)] BY <2>6, <2>2, <2>4
  <2>8. Sum(h, x)
    <3>1. h[0] = << >> BY <2>2, <2>3, <2>5
    <3>2. ASSUME NEW m \in 1 .. x PROVE h[m] = h[m - 1] \o p[m]
      <4>1. m - 1 \in 0 .. x /\ m \in 0 .. x /\ m - 1 # x BY <2>2
      <4>2. h[m - 1] = f[m - 1] BY <4>1
      <4>3. CASE m = x BY <4>1, <4>2, <4>3, Zenon
      <4>4. CASE m # x
        <5>1. m \in 1 .. x - 1 BY <4>4, <2>2
        <5>2. f[m] = f[m - 1] \o p[m] BY <5>1, <2>5, Zenon
        <5> QED BY <5>2, <4>1, <4>2, <4>4, Zenon
      <4> QED BY <4>3, <4>4, Zenon
    <3> QED BY <3>1, <3>2, Zenon
  <2> QED BY <2>7, <2>8, <2>2, Zenon
<1>2. ASSUME NEW n \in Nat
      PROVE  G[n] \in [0 .. n -> Seq(S)] /\ Sum(G[n], n)
  <2>1. \E f \in [0 .. n -> Seq(S)] : Sum(f, n)
    BY <1>1, Zenon
  <2> HIDE DEF Sum
  <2> QED BY <2>1, Zenon
<1> HIDE DEF G
<1>3. \A m \in Nat : \A n \in Nat : m <= n => G[n][m] = G[m][m]
  <2> DEFINE D == {m \in Nat : \E n \in Nat : m <= n /\ G[n][m] # G[m][m]}
  <2>1. ASSUME NEW e \in D PROVE FALSE
    <3>1. PICK d \in D : \A y \in D : d <= y
      <4>1. D \in SUBSET Nat /\ D # {} BY <2>1, Zenon
      <4> HIDE DEF D
      <4> QED BY <4>1, LeastNat
    <3>2. PICK n \in Nat : d <= n /\ G[n][d] # G[d][d]
      BY Zenon
    <3>3. d # 0
      BY <1>2, <3>2, Zenon
    <3>4. d \in Nat /\ d - 1 \in Nat /\ d - 1 < d
      <4>1. d \in Nat
        OBVIOUS
      <4> HIDE DEF D
      <4> QED BY <3>3, <4>1
    <3>5. d - 1 \notin D
      <4> HIDE DEF D
      <4> QED BY <3>1, <3>4
    <3>6. G[n][d - 1] = G[d - 1][d - 1] /\ G[d][d - 1] = G[d - 1][d - 1]
      BY <3>2, <3>4, <3>5
    <3>7. d \in 1 .. n /\ d \in 1 .. d
      BY <3>2, <3>4
    <3>8. G[n][d] = G[n][d - 1] \o p[d] /\ G[d][d] = G[d][d - 1] \o p[d]
      BY <3>7, <3>4, <1>2, Zenon
    <3> QED BY <3>2, <3>6, <3>8
  <2> QED BY <2>1
<1>4. ASSUME NEW n \in Nat \ {0}
      PROVE  g[n] = g[n - 1] \o p[n]
  <2>1. n - 1 \in Nat /\ n \in 1 .. n /\ n - 1 \in 0 .. n OBVIOUS
  <2>2. G[n][n] = G[n][n - 1] \o p[n] BY <1>2, <2>1, Zenon
  <2>3. G[n][n - 1] = G[n - 1][n - 1] BY <2>1, <1>3
  <2> QED BY <2>1, <2>2, <2>3, Zenon
<1>5. g \in [Nat -> Seq(S)] /\ g[0] = << >>
  <2>1. ASSUME NEW n \in Nat PROVE G[n][n] \in Seq(S)
    <3>1. n \in 0 .. n
      OBVIOUS
    <3> QED BY <3>1, <1>2, Zenon
  <2>2. g[0] = G[0][0]
    OBVIOUS
  <2>3. G[0][0] = << >>
    BY <1>2, Zenon
  <2> QED
    BY <2>1, <2>2, <2>3, Zenon
<1> HIDE DEF g
<1>6. Is(g)
  BY <1>4, <1>5, Zenon
<1>7. Joined(p) = CHOOSE f : Is(f)
  BY DEF Joined
<1>8. Is(Joined(p))
  BY <1>6, <1>7, Zenon
<1>9. /\ Joined(p)[0] = << >>
      /\ \A n \in Nat \ {0} : Joined(p)[n] = Joined(p)[n - 1] \o p[n]
      /\ DOMAIN Joined(p) = Nat /\ Joined(p) = [n \in Nat |-> Joined(p)[n]]
  <2> DEFINE J == Joined(p)
  <2> HIDE DEF J
  <2>1. Is(J)
    BY <1>8, Zenon DEF J
  <2>2. /\ J[0] = << >>
        /\ \A n \in Nat \ {0} : J[n] = J[n - 1] \o p[n]
        /\ DOMAIN J = Nat /\ J = [n \in Nat |-> J[n]]
    BY <2>1, Zenon
  <2> QED BY <2>2, Zenon DEF J
<1>10. \A n \in Nat : Joined(p)[n] \in Seq(S)
  <2> DEFINE J == Joined(p)
             D == {n \in Nat : J[n] \notin Seq(S)}
  <2> HIDE DEF J
  <2>1. ASSUME NEW e \in D PROVE FALSE
    <3>1. D \in SUBSET Nat /\ D # {} BY <2>1, Zenon
    <3>2. PICK d \in D : \A y \in D : d <= y
      <4> HIDE DEF D
      <4> QED BY <3>1, LeastNat
    <3>3. d \in Nat /\ J[d] \notin Seq(S)
      OBVIOUS
    <3>4. d # 0
      BY <1>9, <3>3, EmptySeq, Zenon DEF J
    <3>5. d - 1 \in Nat /\ d - 1 \notin D
      <4> HIDE DEF D
      <4> QED BY <3>2, <3>3, <3>4
    <3>6. J[d - 1] \in Seq(S) /\ p[d] \in Seq(S)
      BY <3>3, <3>5, Zenon
    <3>7. J[d] = J[d - 1] \o p[d]
      BY <1>9, <3>3, <3>4, Zenon DEF J
    <3> QED BY <3>3, <3>6, <3>7, ConcatProperties
  <2> QED BY <2>1 DEF J
<1> QED
  BY <1>9, <1>10, Zenon

\* The items of a concatenation.
LEMMA Concatenated ==
  ASSUME NEW S, NEW s \in Seq(S), NEW t \in Seq(S)
  PROVE  /\ s \o t \in Seq(S) /\ Len(s) \in Nat /\ Len(t) \in Nat
         /\ Len(s \o t) = Len(s) + Len(t)
         /\ \A i \in 1 .. Len(s) : (s \o t)[i] = s[i]
         /\ \A i \in 1 .. Len(t) : (s \o t)[Len(s) + i] = t[i]
<1>1. Len(s) \in Nat /\ Len(t) \in Nat
  BY LenProperties
<1>2. /\ s \o t \in Seq(S) /\ Len(s \o t) = Len(s) + Len(t)
      /\ \A i \in 1 .. Len(s) + Len(t) : (s \o t)[i] = IF i <= Len(s) THEN s[i] ELSE t[i - Len(s)]
  BY ConcatProperties
<1>3. ASSUME NEW i \in 1 .. Len(t) PROVE (s \o t)[Len(s) + i] = t[i]
  <2>1. /\ Len(s) + i \in 1 .. Len(s) + Len(t) /\ ~ (Len(s) + i <= Len(s))
        /\ (Len(s) + i) - Len(s) = i
    BY <1>1
  <2> QED BY <2>1, <1>2
<1> QED
  BY <1>1, <1>2, <1>3

----------------------------------------------------------------------------
(***************************************************************************)
(* What is printed, and what a client is to receive.                       *)
(***************************************************************************)
LEMMA HeaderText ==
  ASSUME NEW r \in Request
  PROVE  /\ Header(r) \in Seq(Text) /\ Closing(r) \in Seq(Text)
         /\ Lines(r) \in Seq(Text) /\ Len(Lines(r)) >= 3
         /\ \A i \in DOMAIN Lines(r) : Lines(r)[i] \notin {"blank", "data"}
<1>1. r.upgrade \in BOOLEAN /\ r.uri \in {"id", "quit", "other"} /\ r.close \in BOOLEAN
  BY DEF Request
<1>2. /\ Header(r) \in Seq(Text) /\ Len(Header(r)) >= 3
      /\ \A i \in 1 .. Len(Header(r)) : Header(r)[i] \notin {"blank", "data"}
  <2>1. CASE r.upgrade
    <3>1. Header(r) = <<"400", "chunked", "server", "type">> BY <2>1 DEF Header
    <3> QED BY <3>1 DEF Text
  <2>2. CASE ~ r.upgrade /\ r.uri = "id"
    <3>1. Header(r) = <<"200", "length", "server">> BY <2>2 DEF Header
    <3> QED BY <3>1 DEF Text
  <2>3. CASE ~ r.upgrade /\ r.uri = "quit"
    <3>1. Header(r) = <<"200", "chunked", "server">> BY <2>3 DEF Header
    <3> QED BY <3>1 DEF Text
  <2>4. CASE ~ r.upgrade /\ r.uri = "other"
    <3>1. Header(r) = <<"404", "chunked", "server", "type">> BY <2>4 DEF Header
    <3> QED BY <3>1 DEF Text
  <2> QED BY <1>1, <2>1, <2>2, <2>3, <2>4
<1>3. /\ Closing(r) \in Seq(Text)
      /\ \A i \in 1 .. Len(Closing(r)) : Closing(r)[i] \notin {"blank", "data"}
  <2>1. CASE r.close
    <3>1. Closing(r) = <<"close">> BY <2>1 DEF Closing
    <3> QED BY <3>1 DEF Text
  <2>2. CASE ~ r.close
    <3>1. Closing(r) = << >> BY <2>2 DEF Closing
    <3> QED BY <3>1 DEF Text
  <2> QED BY <2>1, <2>2
<1>4. /\ Lines(r) \in Seq(Text)
      /\ Len(Lines(r)) = Len(Header(r)) + Len(Closing(r))
      /\ \A i \in 1 .. Len(Lines(r)) :
           Lines(r)[i] = IF i <= Len(Header(r)) THEN Header(r)[i]
                         ELSE Closing(r)[i - Len(Header(r))]
  BY <1>2, <1>3, ConcatProperties DEF Lines
<1>5. Len(Header(r)) \in Nat /\ Len(Closing(r)) \in Nat
  BY <1>2, <1>3, LenProperties
<1>6. \A i \in DOMAIN Lines(r) : Lines(r)[i] \notin {"blank", "data"}
  <2> TAKE i \in DOMAIN Lines(r)
  <2>1. i \in 1 .. Len(Lines(r)) BY <1>4, LenProperties
  <2>2. CASE i <= Len(Header(r)) BY <2>1, <2>2, <1>2, <1>4, <1>5
  <2>3. CASE i > Len(Header(r))
    <3>1. i - Len(Header(r)) \in 1 .. Len(Closing(r)) BY <2>1, <2>3, <1>4, <1>5
    <3> QED BY <3>1, <2>1, <2>3, <1>3, <1>4, <1>5
  <2> QED BY <2>1, <2>2, <2>3, <1>5
<1> QED BY <1>2, <1>3, <1>4, <1>5, <1>6

\* What the handler prints: the lines, the blank line, and the data.
LEMMA PrintedItems ==
  ASSUME NEW r \in Request
  PROVE  LET h == Len(Lines(r)) IN
         /\ Printed(r) \in Seq(Text) /\ Len(Printed(r)) = h + 2
         /\ \A i \in 1 .. h : Printed(r)[i] = Lines(r)[i]
         /\ Printed(r)[h + 1] = "blank" /\ Printed(r)[h + 2] = "data"
<1> DEFINE L == Lines(r)
           T == <<"blank", "data">>
<1>1. L \in Seq(Text) /\ Len(L) \in Nat
  BY HeaderText, LenProperties
<1>2. T \in Seq(Text) /\ Len(T) = 2 /\ T[1] = "blank" /\ T[2] = "data"
  BY DEF Text
<1>3. Printed(r) = L \o T
  BY DEF Printed, Lines
<1> HIDE DEF L, T
<1>4. /\ Printed(r) \in Seq(Text) /\ Len(Printed(r)) = Len(L) + 2
      /\ \A i \in 1 .. Len(L) + 2 : Printed(r)[i] = IF i <= Len(L) THEN L[i] ELSE T[i - Len(L)]
  BY <1>1, <1>2, <1>3, ConcatProperties, SMTT(30)
<1>5. /\ \A i \in 1 .. Len(L) : Printed(r)[i] = L[i]
      /\ Printed(r)[Len(L) + 1] = "blank" /\ Printed(r)[Len(L) + 2] = "data"
  BY <1>1, <1>2, <1>4
<1> QED BY <1>4, <1>5 DEF L

\* The data as it travels, and as one wby_write pushes it.
Framed(r) == IF IsChunked(r) THEN <<"chunk">> \o Data \o <<"crlf", "last">> ELSE Data
FramedLen(r) == IF IsChunked(r) THEN Len(Data) + 3 ELSE Len(Data)
Piece(r) == IF IsChunked(r) THEN (<<"chunk">> \o Data) \o <<"crlf">> ELSE Data

LEMMA FramedLengths ==
  ASSUME NEW r
  PROVE  /\ Data \in Seq(Text) /\ Len(Data) \in Nat \ {0}
         /\ FramedLen(r) \in Nat \ {0} /\ PushedLen(r) \in Nat
         /\ PushedLen(r) <= FramedLen(r) + 1
         /\ IsChunked(r) => PushedLen(r) = FramedLen(r)
         /\ ~ IsChunked(r) => PushedLen(r) = FramedLen(r) + 1
<1>1. Data \in Seq(Text) /\ Data # << >>
  <2>1. /\ Len(Data) \in Nat /\ DOMAIN Data = 1 .. Len(Data) /\ Data # << >>
        /\ Data = [n \in 1 .. Len(Data) |-> Data[n]]
    BY WebAssumption, LenProperties
  <2>2. \A n \in 1 .. Len(Data) : Data[n] \in Text
    BY <2>1 DEF Text
  <2> QED BY <2>1, <2>2
<1>2. Len(Data) \in Nat \ {0}
  BY <1>1, LenProperties, EmptySeq
<1> QED
  BY <1>1, <1>2 DEF FramedLen, PushedLen

LEMMA FramedItems ==
  ASSUME NEW r
  PROVE  /\ Framed(r) \in Seq(Text) /\ Len(Framed(r)) = FramedLen(r)
         /\ Piece(r) \in Seq(Text) /\ Len(Piece(r)) = PushedLen(r) - 1
         /\ \A j \in 1 .. PushedLen(r) - 1 : Framed(r)[j] = Piece(r)[j]
         /\ IsChunked(r) => Framed(r)[FramedLen(r)] = "last"
<1>1. Data \in Seq(Text) /\ Len(Data) \in Nat
  BY FramedLengths
<1>2. CASE IsChunked(r)
  <2> DEFINE a == <<"chunk">>
             b == <<"crlf", "last">>
             d == <<"crlf">>
             x == a \o Data
             n == Len(Data)
  <2>1. /\ a \in Seq(Text) /\ Len(a) = 1 /\ b \in Seq(Text) /\ Len(b) = 2
        /\ b[1] = "crlf" /\ b[2] = "last" /\ d \in Seq(Text) /\ Len(d) = 1 /\ d[1] = "crlf"
    BY DEF Text
  <2>2. Framed(r) = x \o b /\ Piece(r) = x \o d
    BY <1>2 DEF Framed, Piece
  <2> HIDE DEF a, b, d
  <2>3. x \in Seq(Text) /\ Len(x) = n + 1
    <3>1. x \in Seq(Text) /\ Len(x) = Len(a) + Len(Data)
      BY <1>1, <2>1, Concatenated
    <3> QED BY <1>1, <2>1, <3>1
  <2> HIDE DEF x
  <2>4. /\ x \o b \in Seq(Text) /\ Len(x \o b) = Len(x) + Len(b)
        /\ \A i \in 1 .. Len(x) : (x \o b)[i] = x[i]
        /\ \A i \in 1 .. Len(b) : (x \o b)[Len(x) + i] = b[i]
    <3>1. x \in Seq(Text) /\ b \in Seq(Text)
      BY <2>1, <2>3
    <3> QED BY <3>1, Concatenated
  <2>5. /\ x \o d \in Seq(Text) /\ Len(x \o d) = Len(x) + Len(d)
        /\ \A i \in 1 .. Len(x) : (x \o d)[i] = x[i]
        /\ \A i \in 1 .. Len(d) : (x \o d)[Len(x) + i] = d[i]
    <3>1. x \in Seq(Text) /\ d \in Seq(Text)
      BY <2>1, <2>3
    <3> QED BY <3>1, Concatenated
  <2> DEFINE f == x \o b
             p == x \o d
  <2>6. /\ f \in Seq(Text) /\ Len(f) = n + 3 /\ f[(n + 1) + 1] = "crlf" /\ f[(n + 1) + 2] = "last"
        /\ \A i \in 1 .. n + 1 : f[i] = x[i]
    BY <2>1, <2>3, <2>4, <1>1
  <2>7. /\ p \in Seq(Text) /\ Len(p) = n + 2 /\ p[(n + 1) + 1] = "crlf"
        /\ \A i \in 1 .. n + 1 : p[i] = x[i]
    BY <2>1, <2>3, <2>5, <1>1
  <2>8. f = Framed(r) /\ p = Piece(r)
    BY <2>2
  <2>9. FramedLen(r) = n + 3 /\ PushedLen(r) = n + 3 /\ n \in Nat
    BY <1>1, <1>2 DEF FramedLen, PushedLen
  <2> HIDE DEF f, p, n
  <2>10. f[n + 3] = "last" /\ n + 3 - 1 = n + 2
    <3>1. (n + 1) + 2 = n + 3
      BY <2>9
    <3> QED BY <2>6, <2>9, <3>1
  <2>11. \A j \in 1 .. n + 2 : f[j] = p[j]
    <3> TAKE j \in 1 .. n + 2
    <3>1. j \in 1 .. n + 1 \/ j = (n + 1) + 1
      BY <2>9
    <3> QED BY <2>6, <2>7, <3>1
  <2> QED BY <1>2, <2>6, <2>7, <2>8, <2>9, <2>10, <2>11
<1>3. CASE ~ IsChunked(r)
  <2>1. Framed(r) = Data /\ Piece(r) = Data
    BY <1>3 DEF Framed, Piece
  <2>2. FramedLen(r) = Len(Data) /\ PushedLen(r) - 1 = Len(Data)
    BY <1>1, <1>3 DEF FramedLen, PushedLen
  <2> QED BY <1>1, <1>3, <2>1, <2>2
<1> QED
  BY <1>2, <1>3

\* The answer to a request is what is printed, after a 100 Continue that was
\* asked for, with the data framed.
LEMMA AnswerItems ==
  ASSUME NEW r \in Request
  PROVE  LET h == Len(Lines(r))
             e == Continued(r) IN
         /\ Answer(r) \in Seq(Text)
         /\ ~ Refused(r) =>
              /\ Len(Answer(r)) = e + h + 1 + FramedLen(r)
              /\ r.expect => Answer(r)[1] = "continue"
              /\ \A i \in 1 .. h : Answer(r)[e + i] = Lines(r)[i]
              /\ Answer(r)[e + h + 1] = "blank"
              /\ \A i \in 1 .. Len(Framed(r)) : Answer(r)[e + h + 1 + i] = Framed(r)[i]
<1> DEFINE L == Lines(r)
           E == IF r.expect THEN <<"continue">> ELSE << >>
           B == <<"blank">>
           D == Framed(r)
           H == Header(r)
           C == Closing(r)
<1>1. L \in Seq(Text) /\ Len(L) \in Nat
  BY HeaderText, LenProperties
<1>2. /\ E \in Seq(Text) /\ Len(E) = Continued(r) /\ Continued(r) \in {0, 1}
      /\ (r.expect => E[1] = "continue" /\ Len(E) = 1)
  <2>1. CASE r.expect
    <3>1. E = <<"continue">> /\ Continued(r) = 1 BY <2>1 DEF Continued
    <3> HIDE DEF E
    <3> QED BY <3>1, <2>1 DEF Text
  <2>2. CASE ~ r.expect
    <3>1. E = << >> /\ Continued(r) = 0 BY <2>2 DEF Continued
    <3> HIDE DEF E
    <3> QED BY <3>1, <2>2 DEF Text
  <2> QED BY <2>1, <2>2
<1>3. B \in Seq(Text) /\ Len(B) = 1 /\ B[1] = "blank"
  BY DEF Text
<1>4. D \in Seq(Text) /\ Len(D) = FramedLen(r)
  BY FramedItems
<1>5. H \in Seq(Text) /\ C \in Seq(Text) /\ L = H \o C
  BY HeaderText DEF Lines
<1>6. Answer(r) = IF Refused(r) THEN << >> ELSE (((E \o H) \o C) \o B) \o D
  BY DEF Answer, Refused, Framed
<1> HIDE DEF L, E, B, D, H, C
<1>7. (E \o H) \o C = E \o L
  <2>1. E \in Seq(Text) /\ H \in Seq(Text) /\ C \in Seq(Text)
    BY <1>2, <1>5
  <2>2. (E \o H) \o C = E \o (H \o C)
    BY <2>1, ConcatAssociative
  <2> QED BY <2>2, <1>5
<1> DEFINE P == E \o L
           Q == P \o B
<1>9. /\ P \in Seq(Text) /\ Len(P) = Len(E) + Len(L)
      /\ \A i \in 1 .. Len(E) : P[i] = E[i]
      /\ \A i \in 1 .. Len(L) : P[Len(E) + i] = L[i]
  BY <1>1, <1>2, Concatenated
<1> HIDE DEF P
<1>10. /\ Q \in Seq(Text) /\ Len(Q) = Len(P) + 1
       /\ \A i \in 1 .. Len(P) : Q[i] = P[i]
       /\ Q[Len(P) + 1] = B[1]
  <2>1. /\ Q \in Seq(Text) /\ Len(Q) = Len(P) + Len(B)
        /\ \A i \in 1 .. Len(P) : Q[i] = P[i]
        /\ \A i \in 1 .. Len(B) : Q[Len(P) + i] = B[i]
    <3>1. P \in Seq(Text) /\ B \in Seq(Text)
      BY <1>9, <1>3
    <3> QED BY <3>1, Concatenated
  <2> HIDE DEF Q
  <2> QED BY <2>1, <1>3
<1> HIDE DEF Q
<1>11. /\ Len(Q) = Len(E) + Len(L) + 1 /\ Q[Len(E) + Len(L) + 1] = "blank"
       /\ \A i \in 1 .. Len(E) : Q[i] = E[i]
       /\ \A i \in 1 .. Len(L) : Q[Len(E) + i] = L[i]
  <2>1. Len(E) \in Nat /\ Len(L) \in Nat
    BY <1>1, <1>2
  <2>2. \A i \in 1 .. Len(E) : Q[i] = E[i]
    BY <2>1, <1>9, <1>10
  <2>3. \A i \in 1 .. Len(L) : Q[Len(E) + i] = L[i]
    <3> TAKE i \in 1 .. Len(L)
    <3>1. Len(E) + i \in 1 .. Len(P) BY <2>1, <1>9
    <3> QED BY <3>1, <1>9, <1>10
  <2> QED BY <2>1, <2>2, <2>3, <1>3, <1>9, <1>10
<1>13. Answer(r) = IF Refused(r) THEN << >> ELSE Q \o D
  BY <1>6, <1>7 DEF P, Q
<1>12. /\ Q \o D \in Seq(Text) /\ Len(Q) \in Nat /\ Len(D) \in Nat
       /\ Len(Q \o D) = Len(Q) + Len(D)
       /\ \A i \in 1 .. Len(Q) : (Q \o D)[i] = Q[i]
       /\ \A i \in 1 .. Len(D) : (Q \o D)[Len(Q) + i] = D[i]
  <2>1. Q \in Seq(Text) /\ D \in Seq(Text)
    BY <1>10, <1>4
  <2> QED BY <2>1, Concatenated
<1>14. Answer(r) \in Seq(Text)
  BY <1>12, <1>13, EmptySeq
<1>15. ASSUME ~ Refused(r)
       PROVE  /\ Len(Answer(r)) = Len(Q) + Len(D)
              /\ \A i \in 1 .. Len(Q) : Answer(r)[i] = Q[i]
              /\ \A i \in 1 .. Len(D) : Answer(r)[Len(Q) + i] = D[i]
  BY <1>12, <1>13, <1>15
<1>16. ASSUME ~ Refused(r)
       PROVE  /\ Len(Answer(r)) = Len(E) + Len(L) + 1 + Len(D)
              /\ r.expect => Answer(r)[1] = "continue"
              /\ \A i \in 1 .. Len(L) : Answer(r)[Len(E) + i] = L[i]
              /\ Answer(r)[Len(E) + Len(L) + 1] = "blank"
              /\ \A i \in 1 .. Len(D) : Answer(r)[Len(E) + Len(L) + 1 + i] = D[i]
  <2>1. Len(E) \in Nat /\ Len(L) \in Nat
    BY <1>1, <1>2
  <2>2. \A i \in 1 .. Len(E) + Len(L) + 1 : Answer(r)[i] = Q[i]
    BY <1>15, <1>16, <1>11
  <2>3. \A i \in 1 .. Len(L) : Answer(r)[Len(E) + i] = L[i]
    <3> TAKE i \in 1 .. Len(L)
    <3>1. Len(E) + i \in 1 .. Len(E) + Len(L) + 1 BY <2>1
    <3> QED BY <3>1, <2>2, <1>11
  <2>4. Answer(r)[Len(E) + Len(L) + 1] = "blank"
    <3>1. Len(E) + Len(L) + 1 \in 1 .. Len(E) + Len(L) + 1 BY <2>1
    <3> QED BY <3>1, <2>2, <1>11
  <2>5. r.expect => Answer(r)[1] = "continue"
    <3> HAVE r.expect
    <3>1. Len(E) = 1 /\ E[1] = "continue" BY <1>2
    <3>2. 1 \in 1 .. Len(E) /\ 1 \in 1 .. Len(E) + Len(L) + 1 BY <3>1, <2>1
    <3> QED BY <3>1, <3>2, <2>2, <1>11
  <2> QED BY <2>3, <2>4, <2>5, <1>11, <1>15, <1>16
<1> QED BY <1>14, <1>16, <1>2, <1>4 DEF L, D

\* A prefix, item by item.
LEMMA PrefixItems ==
  ASSUME NEW S, NEW s \in Seq(S), NEW t \in Seq(S)
  PROVE  IsPrefix(s, t) <=> Len(s) <= Len(t) /\ \A i \in 1 .. Len(s) : s[i] = t[i]
<1>1. /\ Len(s) \in Nat /\ Len(t) \in Nat
      /\ \A i \in 1 .. Len(s) : s[i] \in S /\ \A j \in 1 .. Len(t) : t[j] \in S
  BY LenProperties, ElementOfSeq
<1>2. SubSeq(s, 1, Len(s)) = s
  BY SubSeqFull
<1>3. ASSUME Len(s) <= Len(t)
      PROVE  /\ SubSeq(t, 1, Len(s)) \in Seq(S) /\ Len(SubSeq(t, 1, Len(s))) = Len(s)
             /\ \A i \in 1 .. Len(s) : SubSeq(t, 1, Len(s))[i] = t[i]
  <2>1. 1 \in Int /\ Len(s) \in Int /\ \A i \in 1 .. Len(s) : t[i] \in S
    BY <1>1, <1>3, ElementOfSeq
  <2>2. /\ SubSeq(t, 1, Len(s)) \in Seq(S)
        /\ Len(SubSeq(t, 1, Len(s))) = IF 1 <= Len(s) THEN Len(s) - 1 + 1 ELSE 0
        /\ \A i \in 1 .. Len(s) - 1 + 1 : SubSeq(t, 1, Len(s))[i] = t[1 + i - 1]
    BY <2>1, SubSeqProperties
  <2> QED BY <2>2, <1>1
<1>4. ASSUME Len(s) <= Len(t)
      PROVE  s = SubSeq(t, 1, Len(s)) <=> \A i \in 1 .. Len(s) : s[i] = t[i]
  <2>1. ASSUME \A i \in 1 .. Len(s) : s[i] = t[i] PROVE s = SubSeq(t, 1, Len(s))
    <3>1. \A i \in 1 .. Len(s) : s[i] = SubSeq(t, 1, Len(s))[i]
      BY <1>3, <1>4, <2>1
    <3> QED BY <3>1, <1>3, <1>4, SeqEqual
  <2> QED BY <2>1, <1>3, <1>4
<1> QED
  BY <1>2, <1>4 DEF IsPrefix

LEMMA AnswerTyped ==
  ASSUME script \in Scripts, NEW c \in Clients, NEW k \in Nat
  PROVE  AnswerTo(c, k) \in Seq(Text)
<1>1. script[c] \in Seq(Request)
  BY WebAssumption
<1>2. CASE k \in DOMAIN script[c]
  <2>1. script[c][k] \in Request
    BY <1>1, <1>2, LenProperties
  <2>2. Answer(script[c][k]) \in Seq(Text)
    BY <2>1, AnswerItems
  <2> QED BY <2>2, EmptySeq DEF AnswerTo
<1>3. CASE k \notin DOMAIN script[c]
  BY <1>3, EmptySeq DEF AnswerTo
<1> QED
  BY <1>2, <1>3

\* What a client is to receive, request by request.
LEMMA StreamStep ==
  ASSUME script \in Scripts, NEW c \in Clients
  PROVE  /\ \A k \in Nat : Stream(c, k) \in Seq(Text)
         /\ Stream(c, 0) = << >>
         /\ \A k \in Nat \ {0} : Stream(c, k) = Stream(c, k - 1) \o AnswerTo(c, k)
<1> DEFINE P == [n \in Nat |-> AnswerTo(c, n)]
<1>1. P \in [Nat -> Seq(Text)]
  BY AnswerTyped
<1>2. \A k \in Nat : P[k] = AnswerTo(c, k)
  OBVIOUS
<1>3. \A k : Stream(c, k) = Joined(P)[k]
  BY DEF Stream
<1> HIDE DEF P
<1>4. /\ Joined(P) \in [Nat -> Seq(Text)]
      /\ Joined(P)[0] = << >>
      /\ \A n \in Nat \ {0} : Joined(P)[n] = Joined(P)[n - 1] \o P[n]
  BY <1>1, JoinedEquation, Zenon
<1> QED
  BY <1>2, <1>3, <1>4, Zenon

\* Induction: what a client is to receive up to request j begins what it is
\* to receive up to any later one.
LEMMA StreamGrows ==
  ASSUME script \in Scripts, NEW c \in Clients, NEW j \in Nat, NEW k \in Nat, j <= k
  PROVE  /\ Len(Stream(c, j)) \in Nat /\ Len(Stream(c, k)) \in Nat
         /\ Len(Stream(c, j)) <= Len(Stream(c, k))
         /\ \A i \in 1 .. Len(Stream(c, j)) : Stream(c, k)[i] = Stream(c, j)[i]
<1> DEFINE St(n) == Stream(c, n)
           P(n) == /\ Len(St(j)) <= Len(St(n))
                   /\ \A i \in 1 .. Len(St(j)) : St(n)[i] = St(j)[i]
           T == {n \in Nat : j <= n /\ ~ P(n)}
<1>1. \A n \in Nat : St(n) \in Seq(Text) /\ Len(St(n)) \in Nat
  BY StreamStep, LenProperties
<1>2. ASSUME NEW e \in T PROVE FALSE
  <2>1. PICK n \in T : \A y \in T : n <= y
    <3>1. T \in SUBSET Nat /\ T # {} BY <1>2
    <3> HIDE DEF T
    <3> QED BY <3>1, LeastNat
  <2>2. n \in Nat /\ j <= n /\ ~ P(n)
    OBVIOUS
  <2>3. n # j
    BY <2>2, <1>1
  <2>4. n - 1 \in Nat /\ n \in Nat \ {0} /\ j <= n - 1
    BY <2>2, <2>3
  <2>5. n - 1 \notin T
    <3> HIDE DEF T, P
    <3> QED BY <2>1, <2>4, <2>2
  <2>6. P(n - 1)
    BY <2>4, <2>5
  <2>7. St(n) = St(n - 1) \o AnswerTo(c, n)
    BY <2>4, StreamStep, Zenon
  <2>8. St(n - 1) \in Seq(Text) /\ AnswerTo(c, n) \in Seq(Text)
    BY <2>4, <1>1, AnswerTyped
  <2> HIDE DEF St
  <2>9. /\ Len(St(n)) = Len(St(n - 1)) + Len(AnswerTo(c, n))
        /\ Len(AnswerTo(c, n)) \in Nat
        /\ \A i \in 1 .. Len(St(n - 1)) : St(n)[i] = St(n - 1)[i]
    BY <2>7, <2>8, Concatenated
  <2>10. Len(St(j)) \in Nat /\ Len(St(n - 1)) \in Nat
    BY <1>1, <2>4
  <2> QED BY <2>2, <2>6, <2>9, <2>10
<1>3. P(k)
  BY <1>2
<1> QED
  BY <1>1, <1>3

\* The answer to a request that is reached and served is the part of the
\* stream after the answers before it.
LEMMA StreamServes ==
  ASSUME script \in Scripts, NEW c \in Clients, NEW k \in Nat \ {0}, Begun(c, k),
         k \in DOMAIN script[c], ~ Refused(script[c][k])
  PROVE  LET A == Answer(script[c][k])
             before == Len(Stream(c, k - 1))
             all == Stream(c, Len(script[c])) IN
         /\ script[c][k] \in Request
         /\ before \in Nat /\ Len(A) \in Nat /\ all \in Seq(Text) /\ Len(all) \in Nat
         /\ Len(Stream(c, k)) = before + Len(A) /\ before + Len(A) <= Len(all)
         /\ \A i \in 1 .. Len(A) : all[before + i] = A[i]
<1> DEFINE A == Answer(script[c][k])
           before == Len(Stream(c, k - 1))
           all == Stream(c, Len(script[c]))
           this == Stream(c, k)
           prior == Stream(c, k - 1)
<1>1. /\ script[c] \in Seq(Request) /\ Len(script[c]) \in Nat
      /\ k \in 1 .. Len(script[c]) /\ k - 1 \in Nat /\ script[c][k] \in Request
  BY WebAssumption, LenProperties
<1>2. AnswerTo(c, k) = A
  BY DEF AnswerTo, Begun
<1>3. A \in Seq(Text) /\ prior \in Seq(Text) /\ this \in Seq(Text) /\ all \in Seq(Text)
  BY <1>1, AnswerItems, StreamStep, Zenon
<1>4. this = prior \o A
  BY <1>1, <1>2, StreamStep, Zenon
<1>5. /\ Len(this) \in Nat /\ Len(all) \in Nat /\ Len(this) <= Len(all)
      /\ \A i \in 1 .. Len(this) : all[i] = this[i]
  BY <1>1, StreamGrows
<1> HIDE DEF A, all, this, prior
<1>6. /\ Len(prior) \in Nat /\ Len(A) \in Nat /\ Len(this) = Len(prior) + Len(A)
      /\ \A i \in 1 .. Len(A) : this[Len(prior) + i] = A[i]
  BY <1>3, <1>4, Concatenated
<1>7. \A i \in 1 .. Len(A) : all[Len(prior) + i] = A[i]
  <2> TAKE i \in 1 .. Len(A)
  <2>1. Len(prior) + i \in 1 .. Len(this) BY <1>6
  <2> QED BY <2>1, <1>5, <1>6
<1> QED
  BY <1>1, <1>3, <1>5, <1>6, <1>7 DEF A, all, this, prior

\* The script never changes.
LEMMA SameStream ==
  ASSUME script' = script
  PROVE  /\ \A c, k : Stream(c, k)' = Stream(c, k)
         /\ \A c : Stream(c, Len(script[c]))' = Stream(c, Len(script[c]))
         /\ \A c, k : IsLast(c, k)' = IsLast(c, k)
         /\ \A c, k : Begun(c, k)' = Begun(c, k)
  BY DEF Stream, AnswerTo, IsLast, Begun

\* A request on the wire: its lines, the end of the head, its body.
LEMMA WireItems ==
  ASSUME NEW r \in Request
  PROVE  /\ Wire(r) \in Seq(Item) /\ Len(Wire(r)) = r.lines + 1 + r.body
         /\ \A i \in 1 .. r.lines : Wire(r)[i] = Line
         /\ Wire(r)[r.lines + 1] = r
         /\ \A i \in 1 .. r.body : Wire(r)[r.lines + 1 + i] = Block
<1> DEFINE P == [n \in 1 .. r.lines |-> Line]
           Q == <<r>>
           B == [n \in 1 .. r.body |-> Block]
<1>1. r.lines \in Nat /\ r.body \in Nat
  BY DEF Request
<1>2. P \in Seq(Item) /\ Len(P) = r.lines /\ \A i \in 1 .. r.lines : P[i] = Line
  BY <1>1 DEF Item
<1>3. B \in Seq(Item) /\ Len(B) = r.body /\ \A i \in 1 .. r.body : B[i] = Block
  BY <1>1 DEF Item
<1>4. Q \in Seq(Item) /\ Len(Q) = 1 /\ Q[1] = r
  BY DEF Item
<1>5. Wire(r) = (P \o Q) \o B
  BY DEF Wire
<1> HIDE DEF P, Q, B
<1> DEFINE R == P \o Q
<1>6. /\ R \in Seq(Item) /\ Len(R) = Len(P) + Len(Q)
      /\ \A i \in 1 .. Len(P) : R[i] = P[i]
      /\ \A i \in 1 .. Len(Q) : R[Len(P) + i] = Q[i]
  <2>1. P \in Seq(Item) /\ Q \in Seq(Item)
    BY <1>2, <1>4
  <2> QED BY <2>1, Concatenated
<1> HIDE DEF R
<1>7. /\ R \o B \in Seq(Item) /\ Len(R \o B) = Len(R) + Len(B)
      /\ \A i \in 1 .. Len(R) : (R \o B)[i] = R[i]
      /\ \A i \in 1 .. Len(B) : (R \o B)[Len(R) + i] = B[i]
  <2>1. R \in Seq(Item) /\ B \in Seq(Item)
    BY <1>3, <1>6
  <2> QED BY <2>1, Concatenated
<1>8. Wire(r) = R \o B
  BY <1>5 DEF R
<1>9. Len(R) = r.lines + 1 /\ R[r.lines + 1] = r /\ \A i \in 1 .. r.lines : R[i] = Line
  <2>1. Len(R) = r.lines + 1
    BY <1>2, <1>4, <1>6
  <2>2. R[r.lines + 1] = r
    <3>1. 1 \in 1 .. Len(Q)
      BY <1>4
    <3>2. R[Len(P) + 1] = Q[1]
      BY <3>1, <1>6
    <3> QED BY <3>2, <1>2, <1>4
  <2>3. \A i \in 1 .. r.lines : R[i] = Line
    BY <1>2, <1>6
  <2> QED BY <2>1, <2>2, <2>3
<1>10. \A i \in 1 .. r.lines + 1 : (R \o B)[i] = R[i]
  BY <1>7, <1>9
<1>11. \A i \in 1 .. r.body : (R \o B)[r.lines + 1 + i] = Block
  BY <1>3, <1>7, <1>9, Zenon
<1>12. /\ \A i \in 1 .. r.lines : (R \o B)[i] = Line
       /\ (R \o B)[r.lines + 1] = r
  BY <1>1, <1>9, <1>10
<1>13. Len(R \o B) = r.lines + 1 + r.body
  BY <1>3, <1>7, <1>9
<1> QED
  BY <1>7, <1>8, <1>11, <1>12, <1>13, Zenon

----------------------------------------------------------------------------
(***************************************************************************)
(* Helpers: minima, the two parts of a sequence, the io_buf.               *)
(***************************************************************************)
LEMMA MinOfTwo ==
  ASSUME NEW a \in Nat, NEW b \in Nat
  PROVE  Min({a, b}) \in Nat /\ Min({a, b}) = IF a <= b THEN a ELSE b
<1>1. \E x \in {a, b} : \A y \in {a, b} : x <= y
  OBVIOUS
<1>2. Min({a, b}) \in {a, b} /\ \A y \in {a, b} : Min({a, b}) <= y
  BY <1>1 DEF Min
<1> QED
  BY <1>2

LEMMA MinBounds ==
  ASSUME NEW a \in Nat, NEW b \in Nat
  PROVE  /\ Min({a, b}) \in Nat /\ Min({a, b}) \in 0 .. a /\ Min({a, b}) \in 0 .. b
         /\ a - Min({a, b}) \in Nat /\ b - Min({a, b}) \in Nat
         /\ Min({a, b}) = a \/ Min({a, b}) = b
<1> DEFINE m == Min({a, b})
<1>1. m \in Nat /\ m = IF a <= b THEN a ELSE b
  BY MinOfTwo
<1> HIDE DEF m
<1>2. /\ m \in 0 .. a /\ m \in 0 .. b /\ a - m \in Nat /\ b - m \in Nat
      /\ m = a \/ m = b
  BY <1>1
<1> QED
  BY <1>1, <1>2 DEF m

LEMMA StaysWithin ==
  ASSUME NEW a \in Nat, NEW b \in Nat, NEW m \in Nat, b <= a, m <= a - b
  PROVE  b + m \in Nat /\ b + m <= a
OBVIOUS

LEMMA MinOfSome ==
  ASSUME NEW T \in SUBSET Nat, T # {}
  PROVE  Min(T) \in T /\ \A y \in T : Min(T) <= y
  BY LeastNat, Zenon DEF Min

LEMMA CutInTwo ==
  ASSUME NEW S, NEW s \in Seq(S), NEW n \in 0 .. Len(s)
  PROVE  /\ SubSeq(s, 1, n) \in Seq(S) /\ Len(SubSeq(s, 1, n)) = n
         /\ \A i \in 1 .. n : SubSeq(s, 1, n)[i] = s[i]
         /\ SubSeq(s, n + 1, Len(s)) \in Seq(S) /\ Len(SubSeq(s, n + 1, Len(s))) = Len(s) - n
         /\ \A i \in 1 .. Len(s) - n : SubSeq(s, n + 1, Len(s))[i] = s[n + i]
<1>1. Len(s) \in Nat /\ n \in Nat /\ \A i \in 1 .. Len(s) : s[i] \in S
  BY LenProperties, ElementOfSeq
<1>2. /\ SubSeq(s, 1, n) \in Seq(S)
      /\ Len(SubSeq(s, 1, n)) = IF 1 <= n THEN n - 1 + 1 ELSE 0
      /\ \A i \in 1 .. n - 1 + 1 : SubSeq(s, 1, n)[i] = s[1 + i - 1]
  <2>1. 1 \in Int /\ n \in Int /\ \A i \in 1 .. n : s[i] \in S
    BY <1>1
  <2> QED BY <2>1, SubSeqProperties
<1>3. /\ SubSeq(s, n + 1, Len(s)) \in Seq(S)
      /\ Len(SubSeq(s, n + 1, Len(s))) = IF n + 1 <= Len(s) THEN Len(s) - (n + 1) + 1 ELSE 0
      /\ \A i \in 1 .. Len(s) - (n + 1) + 1 : SubSeq(s, n + 1, Len(s))[i] = s[n + 1 + i - 1]
  <2>1. n + 1 \in Int /\ Len(s) \in Int /\ \A i \in n + 1 .. Len(s) : s[i] \in S
    BY <1>1
  <2> QED BY <2>1, SubSeqProperties
<1> QED
  BY <1>1, <1>2, <1>3

LEMMA FirstAndRest ==
  ASSUME NEW S, NEW s \in Seq(S), s # << >>
  PROVE  /\ Len(s) \in Nat /\ Len(s) >= 1 /\ Head(s) = s[1] /\ Head(s) \in S
         /\ Tail(s) \in Seq(S) /\ Len(Tail(s)) = Len(s) - 1
         /\ \A i \in 1 .. Len(s) - 1 : Tail(s)[i] = s[i + 1]
<1>1. Len(s) \in Nat /\ Len(s) # 0
  BY LenProperties, EmptySeq
<1> QED
  BY <1>1, HeadTailProperties

\* A sequence cut in two.
LEMMA SplitAt ==
  ASSUME NEW S, NEW s \in Seq(S), NEW n \in 0 .. Len(s)
  PROVE  /\ SubSeq(s, 1, n) \in Seq(S) /\ SubSeq(s, n + 1, Len(s)) \in Seq(S)
         /\ SubSeq(s, 1, n) \o SubSeq(s, n + 1, Len(s)) = s
<1> DEFINE a == SubSeq(s, 1, n)
           b == SubSeq(s, n + 1, Len(s))
<1>1. Len(s) \in Nat /\ DOMAIN s = 1 .. Len(s) /\ n \in Nat /\ \A i \in 1 .. Len(s) : s[i] \in S
  BY LenProperties, ElementOfSeq
<1>2. /\ a \in Seq(S) /\ Len(a) = n
      /\ \A i \in 1 .. n : a[i] = s[1 + i - 1]
  BY <1>1, SubSeqProperties, SMTT(30)
<1>3. /\ b \in Seq(S) /\ Len(b) = Len(s) - n
      /\ \A i \in 1 .. Len(s) - n : b[i] = s[(n + 1) + i - 1]
  BY <1>1, SubSeqProperties, SMTT(30)
<1> HIDE DEF a, b
<1>4. /\ a \o b \in Seq(S) /\ Len(a \o b) = Len(a) + Len(b)
      /\ \A i \in 1 .. Len(a) : (a \o b)[i] = a[i]
      /\ \A i \in 1 .. Len(b) : (a \o b)[Len(a) + i] = b[i]
  BY <1>2, <1>3, Concatenated
<1>5. Len(a \o b) = Len(s)
  BY <1>1, <1>2, <1>3, <1>4
<1>6. \A i \in 1 .. Len(s) : (a \o b)[i] = s[i]
  <2> TAKE i \in 1 .. Len(s)
  <2>1. CASE i <= n
    BY <1>1, <1>2, <1>4, <2>1
  <2>2. CASE i > n
    <3>1. i - n \in 1 .. Len(s) - n /\ n + (i - n) = i /\ (n + 1) + (i - n) - 1 = i
      BY <1>1, <2>2
    <3>2. (a \o b)[n + (i - n)] = b[i - n]
      BY <1>2, <1>3, <1>4, <3>1
    <3> QED BY <1>3, <3>1, <3>2
  <2>3. i <= n \/ i > n
    BY <1>1
  <2> QED BY <2>1, <2>2, <2>3
<1>7. a \o b = s
  BY <1>4, <1>5, <1>6, SeqEqual
<1> QED
  BY <1>2, <1>3, <1>7 DEF a, b

\* Pushing a text loses and reorders nothing, whether it fits, is split by a
\* flush or goes to the socket: what was sent and what is buffered, one after
\* the other, grow by it (wby_connection_push).
LEMMA PushItem ==
  ASSUME NEW s \in [io : Seq(Text), sent : Seq(Text)], NEW units \in Seq(Text)
  PROVE  /\ Push(s, units) \in [io : Seq(Text), sent : Seq(Text)]
         /\ Push(s, units).sent \o Push(s, units).io = (s.sent \o s.io) \o units
<1> DEFINE all == s.io \o units
           over == Len(all) - IoMax
<1>1. s.io \in Seq(Text) /\ s.sent \in Seq(Text)
  OBVIOUS
<1>2. all \in Seq(Text) /\ Len(all) \in Nat
  BY <1>1, ConcatProperties, LenProperties
<1>3. s.sent \o all = (s.sent \o s.io) \o units
  BY <1>1, ConcatAssociative
<1>4. s.sent \o all \in Seq(Text)
  BY <1>1, <1>2, ConcatProperties
<1>5. IoMax \in Nat \ {0}
  BY WebAssumption
<1> HIDE DEF all
<1>6. CASE over < 0
  <2>1. Push(s, units) = [s EXCEPT !.io = all]
    BY <1>6 DEF Push, all
  <2> QED BY <2>1, <1>2, <1>3, Zenon
<1>7. CASE ~ over < 0 /\ over >= IoMax
  <2>1. Push(s, units) = [io |-> << >>, sent |-> s.sent \o all]
    BY <1>7 DEF Push, all
  <2>2. (s.sent \o all) \o << >> = s.sent \o all
    BY <1>4, ConcatEmptySeq
  <2>3. Push(s, units).io = << >> /\ Push(s, units).sent = s.sent \o all
    BY <2>1
  <2>4. << >> \in Seq(Text)
    BY EmptySeq
  <2>5. Push(s, units) \in [io : Seq(Text), sent : Seq(Text)]
    BY <2>1, <2>4, <1>4
  <2> QED BY <2>2, <2>3, <2>5, <1>3
<1>8. CASE ~ over < 0 /\ ~ over >= IoMax
  <2> DEFINE one == SubSeq(all, 1, IoMax)
             two == SubSeq(all, IoMax + 1, Len(all))
  <2>1. Push(s, units) = [io |-> two, sent |-> s.sent \o one]
    BY <1>8 DEF Push, all
  <2>2. one \in Seq(Text) /\ two \in Seq(Text) /\ one \o two = all
    <3>1. IoMax \in 0 .. Len(all)
      BY <1>2, <1>5, <1>8
    <3> QED BY <1>2, <3>1, SplitAt
  <2> HIDE DEF one, two
  <2>3. s.sent \o one \in Seq(Text)
    BY <1>1, <2>2, ConcatProperties
  <2>4. (s.sent \o one) \o two = s.sent \o (one \o two)
    <3> DEFINE z == s.sent
    <3>1. z \in Seq(Text) /\ one \in Seq(Text) /\ two \in Seq(Text)
      BY <1>1, <2>2
    <3> HIDE DEF z
    <3>2. (z \o one) \o two = z \o (one \o two)
      BY <3>1, ConcatAssociative, SMTT(30)
    <3> QED BY <3>2 DEF z
  <2>5. Push(s, units).io = two /\ Push(s, units).sent = s.sent \o one
    BY <2>1
  <2>6. Push(s, units) \in [io : Seq(Text), sent : Seq(Text)]
    BY <2>1, <2>2, <2>3
  <2> QED BY <1>3, <2>2, <2>4, <2>5, <2>6
<1> QED
  BY <1>6, <1>7, <1>8, Zenon

\* What is sent reaches a client that is there, and nobody else.
LEMMA Delivered ==
  ASSUME TypeOK, NEW c \in Clients, NEW items \in Seq(Text), SendTo(c, items)
  PROVE  /\ out' \in [Clients -> Seq(Text)]
         /\ \A d \in Clients : d # c => out'[d] = out[d]
         /\ Open(c) => out'[c] = out[c] \o items
         /\ ~ Open(c) => out'[c] = out[c]
<1>1. out[c] \in Seq(Text) /\ c # None /\ out \in [Clients -> Seq(Text)]
  BY WebAssumption DEF TypeOK
<1>2. out[c] \o << >> = out[c] /\ out[c] \o items \in Seq(Text)
  BY <1>1, ConcatEmptySeq, ConcatProperties
<1>3. CASE items = << >> \/ ~ Open(c)
  BY <1>1, <1>2, <1>3 DEF SendTo, Open
<1>4. CASE items # << >> /\ Open(c)
  <2>1. out' = [out EXCEPT ![c] = out[c] \o items]
    BY <1>1, <1>4 DEF SendTo, Open
  <2> QED BY <2>1, <1>1, <1>2, <1>4
<1> QED
  BY <1>3, <1>4

\* The types of the parts, as the proofs use them.
LEMMA Fields ==
  ASSUME TypeOK
  PROVE  /\ con.used \in BOOLEAN /\ con.sock \in Clients \cup {None}
         /\ con.flags \in SUBSET {"alive", "close", "chunked"}
         /\ con.head \in Seq(Item) /\ con.req \in Request \cup {NoRequest}
         /\ con.left \in Nat /\ con.read \in Nat /\ con.io \in Seq(Text)
         /\ con.depth \in {0, 1} /\ con.blocks \in BOOLEAN
         /\ con.req.body \in Nat /\ Len(con.head) \in Nat
         /\ con.sock # None => con.sock \in Clients
         /\ None \notin Clients
         /\ \A c \in Clients : /\ inbox[c] \in Seq(Item) /\ Len(inbox[c]) \in Nat
                               /\ rest[c] \in Seq(Item) /\ Len(rest[c]) \in Nat
                               /\ out[c] \in Seq(Text) /\ Len(out[c]) \in Nat
                               /\ script[c] \in Seq(Request) /\ Len(script[c]) \in Nat
                               /\ asked[c] \in Nat
<1>1. con \in Connection
  BY DEF TypeOK
<1>2. /\ con.used \in BOOLEAN /\ con.sock \in Clients \cup {None}
      /\ con.flags \in SUBSET {"alive", "close", "chunked"}
      /\ con.head \in Seq(Item) /\ con.req \in Request \cup {NoRequest}
      /\ con.left \in Nat /\ con.read \in Nat /\ con.io \in Seq(Text)
      /\ con.depth \in {0, 1} /\ con.blocks \in BOOLEAN
  BY <1>1 DEF Connection
<1>3. con.req.body \in Nat
  BY <1>2 DEF Request, NoRequest
<1>4. \A c \in Clients : script[c] \in Seq(Request)
  BY WebAssumption DEF TypeOK
<1> QED
  BY <1>2, <1>3, <1>4, WebAssumption, LenProperties DEF TypeOK

----------------------------------------------------------------------------
(***************************************************************************)
(* Types and shape are kept by every step.                                 *)
(***************************************************************************)
Well == TypeOK /\ Shape

LEMMA InitWell == Init => Well
<1> SUFFICES ASSUME Init PROVE Well
  OBVIOUS
<1>1. << >> \in Seq(Item) /\ << >> \in Seq(Text) /\ << >> \in Seq(Clients) /\ Len(<< >>) = 0
  OBVIOUS
<1>2. con \in Connection
  BY <1>1 DEF Init, NoCon, Connection
<1>3. TypeOK
  BY <1>1, <1>2, Zenon DEF Init, TypeOK
<1>4. \A c \in Clients : Len(script[c]) \in Nat
  BY <1>3, Fields
<1>5. Shape
  BY <1>1, <1>4, WebAssumption DEF Init, Shape, NoCon, Alive
<1> QED
  BY <1>3, <1>5 DEF Well

LEMMA ClientWell ==
  ASSUME Well, NEW c \in Clients, ClientNext(c) \/ Leave(c)
  PROVE  Well'
<1>1. CASE Connect(c)
  <2>1. Append(backlog, c) \in Seq(Clients) /\ Append(backlog, c) # << >>
    <3>1. backlog \in Seq(Clients)
      BY DEF Well, TypeOK
    <3> QED BY <3>1, AppendProperties
  <2>2. TypeOK'
    BY <1>1, <2>1, Zenon DEF Connect, Well, TypeOK, server
  <2>3. Shape'
    BY <1>1, <2>1 DEF Connect, Well, Shape, server, Alive
  <2> QED BY <2>2, <2>3 DEF Well
<1>2. CASE Ask(c)
  <2>1. script[c] \in Seq(Request) /\ asked[c] + 1 \in 1 .. Len(script[c]) /\ asked[c] + 1 \in Nat
    BY <1>2, Fields DEF Ask, Well, Shape
  <2>2. script[c][asked[c] + 1] \in Request
    BY <2>1, ElementOfSeq
  <2>3. Wire(script[c][asked[c] + 1]) \in Seq(Item)
    BY <2>2, WireItems
  <2>4. /\ asked' = [asked EXCEPT ![c] = asked[c] + 1]
        /\ rest' = [rest EXCEPT ![c] = Wire(script[c][asked[c] + 1])]
    BY <1>2, <2>1 DEF Ask, Well, TypeOK
  <2>5. TypeOK'
    BY <1>2, <2>1, <2>3, <2>4 DEF Ask, Well, TypeOK, server
  <2>6. \A d \in Clients : asked'[d] <= Len(script'[d])
    <3> TAKE d \in Clients
    <3>1. asked[d] <= Len(script[d]) /\ script' = script /\ asked \in [Clients -> Nat]
      BY <1>2 DEF Ask, Well, TypeOK, Shape
    <3>2. asked'[d] = IF d = c THEN asked[c] + 1 ELSE asked[d]
      BY <2>4, <3>1
    <3>3. asked[c] + 1 <= Len(script[c])
      BY <2>1
    <3> QED BY <3>1, <3>2, <3>3
  <2>7. Shape'
    BY <1>2, <2>6 DEF Ask, Well, Shape, server, Alive
  <2> QED BY <2>5, <2>7 DEF Well
<1>3. CASE Send(c)
  <2>1. rest[c] \in Seq(Item) /\ rest[c] # << >> /\ inbox[c] \in Seq(Item)
    BY <1>3, Fields DEF Send, Well
  <2>2. Head(rest[c]) \in Item /\ Tail(rest[c]) \in Seq(Item)
    BY <2>1, FirstAndRest
  <2>3. Append(inbox[c], Head(rest[c])) \in Seq(Item)
    BY <2>1, <2>2, AppendProperties
  <2>4. /\ inbox' = [inbox EXCEPT ![c] = Append(inbox[c], Head(rest[c]))]
        /\ rest' = [rest EXCEPT ![c] = Tail(rest[c])]
    BY <1>3 DEF Send
  <2>5. TypeOK'
    BY <1>3, <2>2, <2>3, <2>4 DEF Send, Well, TypeOK, server
  <2>6. Shape'
    BY <1>3 DEF Send, Well, Shape, server, Alive
  <2> QED BY <2>5, <2>6 DEF Well
<1>4. CASE Finish(c)
  BY <1>4, ZenonT(60) DEF Finish, Well, TypeOK, Shape, server, Alive
<1>5. CASE Leave(c)
  <2>1. PICK p \in {"fin", "reset"} : phase' = [phase EXCEPT ![c] = p]
    BY <1>5, Zenon DEF Leave
  <2>2. TypeOK'
    BY <1>5, <2>1 DEF Leave, Well, TypeOK, server
  <2>3. Shape'
    BY <1>5 DEF Leave, Well, Shape, server, Alive
  <2> QED BY <2>2, <2>3 DEF Well
<1> QED
  BY <1>1, <1>2, <1>3, <1>4, <1>5 DEF ClientNext

LEMMA KillWell == Well /\ Kill => Well'
  BY DEF Kill, Goto, Well, TypeOK, Shape, Alive

LEMMA SelectWell == Well /\ Select => Well'
<1> SUFFICES ASSUME Well, Select PROVE Well'
  OBVIOUS
<1>1. TypeOK'
  BY Zenon DEF Well, TypeOK, Select, Goto, client
<1>2. Shape'
  BY Zenon DEF Well, TypeOK, Shape, Select, Goto, client, Alive
<1> QED
  BY <1>1, <1>2 DEF Well

LEMMA AcceptWell == Well /\ Accept => Well'
<1> SUFFICES ASSUME Well, Accept PROVE Well'
  OBVIOUS
<1>1. backlog \in Seq(Clients) /\ backlog # << >> /\ con.sock = None
  BY DEF Well, TypeOK, Shape, Accept
<1>2. Head(backlog) \in Clients /\ Tail(backlog) \in Seq(Clients)
  BY <1>1, FirstAndRest
<1>3. con' = [used |-> TRUE, sock |-> Head(backlog), flags |-> {"alive"}, head |-> << >>,
              req |-> NoRequest, left |-> 0, read |-> 0, io |-> << >>, depth |-> 0,
              blocks |-> FALSE]
  BY Zenon DEF Accept, NoCon
<1>4. con' \in Connection
  <2>1. << >> \in Seq(Item) /\ << >> \in Seq(Text)
    OBVIOUS
  <2> QED BY <1>2, <1>3, <2>1 DEF Connection
<1>5. TypeOK'
  BY <1>2, <1>4, Zenon DEF Well, TypeOK, Accept, Goto, client
<1>6. Head(backlog) # None
  BY <1>2, WebAssumption
<1>7. con'.head = << >> /\ Len(<< >>) = 0
  BY <1>3
<1>8. /\ con'.used /\ con'.sock # None
      /\ con'.read = 0 /\ con'.left = 0 /\ con'.depth = 0
  BY <1>3, <1>6
<1>10. pc' = "recv" /\ asked' = asked /\ script' = script /\ HeadMax \in Nat
  BY WebAssumption DEF Accept, Goto, client
<1>9. Shape'
  BY <1>7, <1>8, <1>10 DEF Well, Shape, Alive
<1> QED
  BY <1>5, <1>9 DEF Well

\* What one recv takes fits in header_buf.
LEMMA RecvTakes ==
  ASSUME Well, pc = "recv", NEW n, n = Min({HeadMax - Len(con.head), Len(inbox[con.sock])})
  PROVE  LET c == con.sock IN
         /\ c \in Clients /\ n \in Nat
         /\ n = IF HeadMax - Len(con.head) <= Len(inbox[c]) THEN HeadMax - Len(con.head)
                ELSE Len(inbox[c])
         /\ Len(con.head) + n <= HeadMax /\ n \in 0 .. Len(inbox[c])
         /\ con.head \in Seq(Item) /\ inbox[c] \in Seq(Item)
<1>1. con.sock \in Clients /\ Len(con.head) \in Nat /\ Len(con.head) <= HeadMax
  BY Fields DEF Well, Shape
<1>2. HeadMax \in Nat /\ HeadMax - Len(con.head) \in Nat /\ Len(inbox[con.sock]) \in Nat
  BY <1>1, Fields, WebAssumption DEF Well
<1>3. n \in Nat /\ n = IF HeadMax - Len(con.head) <= Len(inbox[con.sock])
                      THEN HeadMax - Len(con.head) ELSE Len(inbox[con.sock])
  BY <1>2, MinOfTwo, Zenon
<1>4. con.head \in Seq(Item) /\ inbox[con.sock] \in Seq(Item)
  BY <1>1, Fields DEF Well
<1>5. Len(con.head) + n <= HeadMax /\ n \in 0 .. Len(inbox[con.sock])
  <2> DEFINE l == Len(inbox[con.sock])
             g == Len(con.head)
  <2>1. l \in Nat /\ g \in Nat /\ HeadMax \in Nat /\ g <= HeadMax
    BY <1>1, <1>2
  <2>2. n = IF HeadMax - g <= l THEN HeadMax - g ELSE l
    BY <1>3, Zenon
  <2> HIDE DEF l, g
  <2>3. g + n <= HeadMax /\ n \in 0 .. l
    BY <2>1, <2>2
  <2> QED BY <2>3 DEF l, g
<1> QED
  BY <1>1, <1>3, <1>4, <1>5, Zenon

LEMMA RecvWell == Well /\ Recv => Well'
<1> SUFFICES ASSUME Well, Recv PROVE Well'
  OBVIOUS
<1> DEFINE c == con.sock
           n == Min({HeadMax - Len(con.head), Len(inbox[c])})
<1>1. /\ c \in Clients /\ n \in Nat /\ Len(con.head) + n <= HeadMax /\ n \in 0 .. Len(inbox[c])
      /\ con.head \in Seq(Item) /\ inbox[c] \in Seq(Item) /\ pc = "recv" /\ con \in Connection
  BY RecvTakes, Zenon DEF Recv, Well, TypeOK
<1>2. CASE /\ n > 0
           /\ con' = [con EXCEPT !.head = con.head \o SubSeq(inbox[c], 1, n)]
           /\ inbox' = [inbox EXCEPT ![c] = SubSeq(inbox[c], n + 1, Len(inbox[c]))]
           /\ UNCHANGED <<pc, client, out, backlog, say, quit>>
  <2> HIDE DEF c, n
  <2> DEFINE h == con.head \o SubSeq(inbox[c], 1, n)
             t == SubSeq(inbox[c], n + 1, Len(inbox[c]))
  <2>1. /\ SubSeq(inbox[c], 1, n) \in Seq(Item) /\ Len(SubSeq(inbox[c], 1, n)) = n
        /\ t \in Seq(Item)
    BY <1>1, CutInTwo
  <2>2. h \in Seq(Item) /\ Len(h) = Len(con.head) + n
    <3>1. con.head \in Seq(Item) /\ SubSeq(inbox[c], 1, n) \in Seq(Item)
      BY <2>1, <1>1
    <3>2. h \in Seq(Item) /\ Len(h) = Len(con.head) + Len(SubSeq(inbox[c], 1, n))
      BY <3>1, Concatenated
    <3> QED BY <3>2, <2>1
  <2> HIDE DEF h, t
  <2>3. con' \in Connection /\ con' = [con EXCEPT !.head = h]
    BY <1>1, <1>2, <2>2, Zenon DEF Connection, h
  <2>4. TypeOK'
    BY <1>1, <1>2, <2>1, <2>3, Zenon DEF Well, TypeOK, client, t
  <2>5. Shape'
    BY <1>1, <1>2, <2>2, <2>3 DEF Well, Shape, client, Alive, Connection
  <2> QED BY <2>4, <2>5 DEF Well
<1>3. CASE Die /\ Goto("compact") /\ UNCHANGED <<inbox, client, out, backlog, say, quit>>
  BY <1>1, <1>3, Zenon DEF Well, TypeOK, Shape, client, Alive, Connection, Die, Goto
<1>4. CASE Goto("parse") /\ UNCHANGED <<con, inbox, client, out, backlog, say, quit>>
  BY <1>1, <1>4, Zenon DEF Well, TypeOK, Shape, client, Alive, Goto
<1> QED
  BY <1>2, <1>3, <1>4, Zenon DEF Recv

\* The end of the head that the parser finds is the first one.
LEMMA ParseFinds ==
  ASSUME Well, pc = "parse", PeekRequest(con.head) # {}
  PROVE  LET at == Min(PeekRequest(con.head)) IN
         /\ at \in 1 .. Len(con.head) /\ con.head[at].kind = "end" /\ con.head[at] \in Request
         /\ \A i \in 1 .. Len(con.head) : con.head[i].kind = "end" => at <= i
<1> DEFINE T == PeekRequest(con.head)
<1>1. con.head \in Seq(Item) /\ Len(con.head) \in Nat /\ DOMAIN con.head = 1 .. Len(con.head)
  BY Fields, LenProperties DEF Well
<1>2. T \in SUBSET Nat /\ T \subseteq 1 .. Len(con.head)
  BY <1>1 DEF PeekRequest
<1>3. \A i \in 1 .. Len(con.head) : i \in T <=> con.head[i].kind = "end"
  BY <1>1 DEF PeekRequest
<1> HIDE DEF T
<1>4. Min(T) \in T /\ \A y \in T : Min(T) <= y
  BY <1>2, MinOfSome DEF T
<1>5. con.head[Min(T)] \in Item
  BY <1>1, <1>2, <1>4, ElementOfSeq, Zenon
<1>6. con.head[Min(T)].kind = "end"
  BY <1>2, <1>3, <1>4, Zenon
<1>7. con.head[Min(T)] \in Request
  BY <1>5, <1>6 DEF Item, Line, Block
<1> QED
  BY <1>2, <1>3, <1>4, <1>6, <1>7 DEF T

LEMMA ParseWell == Well /\ Parse => Well'
<1> SUFFICES ASSUME Well, Parse PROVE Well'
  OBVIOUS
<1> DEFINE at == Min(PeekRequest(con.head))
<1>1. pc = "parse" /\ con \in Connection /\ UNCHANGED <<client, inbox, out, backlog, say, quit>>
  BY DEF Parse, Well, TypeOK
<1>2. CASE UNCHANGED con /\ Goto("compact")
  BY <1>1, <1>2 DEF Well, TypeOK, Shape, client, Alive, Goto
<1>3. CASE Die /\ Goto("compact")
  BY <1>1, <1>3, Zenon DEF Well, TypeOK, Shape, client, Alive, Connection, Die, Goto
<1>4. CASE /\ PeekRequest(con.head) # {}
           /\ con' = Setup(con.head[at], at)
           /\ Goto(IF con.head[at].expect THEN "continue" ELSE "serve")
  <2>1. con.head[at] \in Request /\ at \in 1 .. Len(con.head) /\ Len(con.head) \in Nat
    BY <1>1, <1>4, ParseFinds, Fields DEF Well
  <2> DEFINE r == con.head[at]
             l == Len(con.head) - at
  <2>2. con' = [con EXCEPT !.req = r, !.left = l] /\ l \in Nat /\ r \in Request
    BY <1>4, <2>1 DEF Setup
  <2>3. pc' \in {"continue", "serve"}
    BY <1>4 DEF Goto
  <2> HIDE DEF r, l
  <2>4. con' \in Connection
    BY <1>1, <2>2, Zenon DEF Connection
  <2>5. TypeOK'
    BY <1>1, <2>3, <2>4 DEF Well, TypeOK, client
  <2>6. con.read = 0 /\ con.depth = 0 /\ con.used /\ con.sock # None /\ Len(con.head) <= HeadMax
    BY <1>1 DEF Well, Shape
  <2>7. /\ con'.read = 0 /\ con'.depth = 0 /\ con'.used /\ con'.sock # None
        /\ con'.head = con.head /\ con'.req \in Request
    BY <1>1, <2>2, <2>6 DEF Connection
  <2>8. r.body \in Nat /\ con'.req.body \in Nat
    BY <2>2, <2>7 DEF Request
  <2>9. Shape'
    BY <1>1, <2>3, <2>6, <2>7, <2>8 DEF Well, Shape, client
  <2> QED BY <2>5, <2>9 DEF Well
<1> QED
  BY <1>2, <1>3, <1>4 DEF Parse

LEMMA ContinueWell == Well /\ Continue => Well'
<1> SUFFICES ASSUME Well, Continue PROVE Well'
  OBVIOUS
<1>1. pc = "continue" /\ con.sock \in Clients
  BY Fields DEF Continue, Well, Shape
<1>2. CASE SendTo(con.sock, <<"continue">>) /\ Goto("serve")
           /\ UNCHANGED <<client, inbox, backlog, con, say, quit>>
  <2>1. <<"continue">> \in Seq(Text)
    BY DEF Text
  <2>2. out' \in [Clients -> Seq(Text)]
    BY <1>1, <1>2, <2>1, Delivered, Zenon DEF Well
  <2> QED BY <1>1, <1>2, <2>2, Zenon DEF Well, TypeOK, Shape, Goto, client, Alive
<1>3. CASE Die /\ Goto("compact") /\ UNCHANGED <<client, inbox, out, backlog, say, quit>>
  <2>1. con \in Connection
    BY DEF Well, TypeOK
  <2>2. /\ con' \in Connection /\ con'.sock = con.sock /\ con'.head = con.head /\ con'.req = con.req
        /\ con'.used = con.used /\ "alive" \notin con'.flags
    BY <1>3, <2>1 DEF Die, Connection
  <2>3. TypeOK'
    BY <1>3, <2>2, Zenon DEF Well, TypeOK, Goto, client
  <2>4. Shape'
    BY <1>1, <1>3, <2>2 DEF Well, Shape, Goto, client, Alive
  <2> QED BY <2>3, <2>4 DEF Well
<1> QED
  BY <1>2, <1>3, KillWell DEF Continue, MayKill

LEMMA ServeWell == Well /\ Serve => Well'
<1> SUFFICES ASSUME Well, Serve PROVE Well'
  OBVIOUS
<1>1. /\ pc = "serve" /\ con \in Connection /\ con.depth = 0 /\ con.used
      /\ con.req \in Request /\ con.read <= con.req.body /\ Len(con.head) <= HeadMax
      /\ UNCHANGED <<client, inbox, out, backlog, say, quit>>
      /\ << >> \in Seq(Text)
  BY DEF Serve, Well, TypeOK, Shape
<1>2. CASE con.sock = None
  <2>1. con' = [con EXCEPT !.io = << >>, !.flags = con.flags \ {"alive"}] /\ pc' = "compact"
    BY <1>1, <1>2 DEF Serve, Goto
  <2>2. con' \in Connection /\ "alive" \notin con'.flags /\ con'.used /\ con'.head = con.head
    BY <1>1, <2>1, Zenon DEF Connection
  <2> QED BY <1>1, <2>1, <2>2 DEF Well, TypeOK, Shape, client, Alive
<1>3. CASE con.sock # None
  <2>1. con' = [con EXCEPT !.io = << >>, !.depth = 1, !.blocks = TRUE] /\ pc' = "discard"
    <3>1. con' = SetBlocking([con EXCEPT !.io = << >>]) /\ pc' = "discard"
      BY <1>3 DEF Serve, Goto
    <3>2. con' = [con EXCEPT !.io = << >>, !.depth = con.depth + 1, !.blocks = TRUE]
      BY <1>1, <3>1, Zenon DEF SetBlocking, Connection
    <3> QED BY <1>1, <3>1, <3>2
  <2>2. /\ con' \in Connection /\ con'.used /\ con'.head = con.head /\ con'.depth = 1
        /\ con'.req = con.req /\ con'.read = con.read /\ con'.sock = con.sock
    BY <1>1, <2>1, Zenon DEF Connection
  <2> QED BY <1>1, <1>3, <2>1, <2>2 DEF Well, TypeOK, Shape, client, Alive
<1> QED
  BY <1>2, <1>3

LEMMA DiscardWell == Well /\ Discard => Well'
<1> SUFFICES ASSUME Well, Discard PROVE Well'
  OBVIOUS
<1> DEFINE c == con.sock
           need == con.req.body - con.read
           n == Min({need, Len(inbox[c])})
<1>1. /\ pc = "discard" /\ con \in Connection /\ con.depth = 1 /\ con.used
      /\ con.req \in Request /\ con.read <= con.req.body /\ Len(con.head) <= HeadMax
      /\ c \in Clients /\ con.sock # None
      /\ UNCHANGED <<script, asked, rest, out, backlog, quit>>
  BY Fields DEF Discard, Well, TypeOK, Shape
<1>2. /\ need \in Nat /\ con.req.body \in Nat /\ con.read \in Nat /\ con.left \in Nat
      /\ Len(inbox[c]) \in Nat /\ inbox[c] \in Seq(Item)
  BY <1>1, Fields DEF Well
<1>3. CASE need > 0 /\ con.left > 0 /\ con' = ReadBuffered(con, need)
           /\ UNCHANGED <<phase, inbox, pc, say>>
  <2> DEFINE m == Min({need, con.left})
  <2>1. m \in 0 .. need /\ con.left - m \in Nat
    BY <1>2, MinBounds
  <2>2. con' = [con EXCEPT !.left = con.left - m, !.read = con.read + m]
    BY <1>3 DEF ReadBuffered
  <2>3. con.left - m \in Nat /\ con.read + m \in Nat /\ con.read + m <= con.req.body
    <3>1. m \in Nat /\ m <= need
      BY <2>1, <1>2
    <3> HIDE DEF m
    <3> QED BY <2>1, <3>1, <1>1, <1>2, StaysWithin, Zenon
  <2> HIDE DEF m
  <2>4. /\ con' \in Connection /\ con'.used /\ con'.head = con.head /\ con'.depth = 1
        /\ con'.req = con.req /\ con'.read = con.read + m /\ con'.sock = con.sock
    BY <1>1, <2>2, <2>3, Zenon DEF Connection
  <2>5. TypeOK'
    BY <1>1, <1>3, <2>4 DEF Well, TypeOK
  <2>6. Shape'
    BY <1>1, <1>3, <2>3, <2>4 DEF Well, Shape
  <2> QED BY <2>5, <2>6 DEF Well
<1>4. CASE /\ need > 0 /\ n > 0
           /\ con' = [con EXCEPT !.read = con.read + n]
           /\ inbox' = [inbox EXCEPT ![c] = SubSeq(inbox[c], n + 1, Len(inbox[c]))]
           /\ UNCHANGED <<phase, pc, say>>
  <2>1. n \in 0 .. need /\ n \in 0 .. Len(inbox[c])
    BY <1>2, MinBounds, Zenon
  <2>2. con.read + n \in Nat /\ con.read + n <= con.req.body
    <3>1. n \in Nat /\ n <= need
      BY <2>1, <1>2
    <3> HIDE DEF n
    <3> QED BY <3>1, <1>1, <1>2, StaysWithin, Zenon
  <2> HIDE DEF n
  <2>3. SubSeq(inbox[c], n + 1, Len(inbox[c])) \in Seq(Item)
    BY <1>2, <2>1, CutInTwo
  <2>4. /\ con' \in Connection /\ con'.used /\ con'.head = con.head /\ con'.depth = 1
        /\ con'.req = con.req /\ con'.read = con.read + n /\ con'.sock = con.sock
    BY <1>1, <1>4, <2>2, Zenon DEF Connection
  <2>5. TypeOK'
    BY <1>1, <1>4, <2>3, <2>4, Zenon DEF Well, TypeOK
  <2>6. Shape'
    BY <1>1, <1>4, <2>2, <2>4 DEF Well, Shape
  <2> QED BY <2>5, <2>6 DEF Well
<1>5. CASE Die /\ say' = <<"data">> /\ Goto("respond") /\ phase' = [phase EXCEPT ![c] = "fin"]
           /\ UNCHANGED inbox
  <2>1. <<"data">> \in Seq(Text)
    BY DEF Text
  <2>2. /\ con' \in Connection /\ con'.used /\ con'.head = con.head /\ con'.depth = 1
        /\ con'.req = con.req /\ con'.read = con.read /\ con'.sock = con.sock /\ pc' = "respond"
    BY <1>1, <1>5 DEF Connection, Die, Goto
  <2>3. TypeOK'
    BY <1>1, <1>5, <2>1, <2>2 DEF Well, TypeOK
  <2>4. Shape'
    BY <1>1, <2>2 DEF Well, Shape
  <2> QED BY <2>3, <2>4 DEF Well
<1>6. CASE /\ con' = [con EXCEPT !.flags = @ \cup (IF con.req.close THEN {"close"} ELSE {})]
           /\ say' = Printed(con.req) /\ Goto("respond") /\ UNCHANGED <<phase, inbox>>
  <2>1. say' \in Seq(Text)
    BY <1>1, <1>6, PrintedItems
  <2>2. /\ con' \in Connection /\ con'.used /\ con'.head = con.head /\ con'.depth = 1
        /\ con'.req = con.req /\ con'.read = con.read /\ con'.sock = con.sock /\ pc' = "respond"
    BY <1>1, <1>6 DEF Connection, Goto
  <2>3. TypeOK'
    BY <1>1, <1>6, <2>1, <2>2, Zenon DEF Well, TypeOK
  <2>4. Shape'
    BY <1>1, <2>2 DEF Well, Shape
  <2> QED BY <2>3, <2>4 DEF Well
<1> QED
  BY <1>3, <1>4, <1>5, <1>6, Zenon DEF Discard

LEMMA UnitsType ==
  ASSUME NEW item \in Text
  PROVE  Units(item) \in Seq(Text)
<1>1. Data \in Seq(Text) /\ <<item>> \in Seq(Text)
  BY FramedLengths
<1> QED
  BY <1>1 DEF Units

LEMMA Pushing ==
  ASSUME TypeOK, NEW item \in Text
  PROVE  LET none == [io |-> con.io, sent |-> << >>]
             s == IF "chunked" \in con.flags THEN Push(Push(Push(none, <<"chunk">>), Units(item)), <<"crlf">>)
                  ELSE Push(none, Units(item)) IN
         s \in [io : Seq(Text), sent : Seq(Text)] /\ none \in [io : Seq(Text), sent : Seq(Text)]
<1>1. [io |-> con.io, sent |-> << >>] \in [io : Seq(Text), sent : Seq(Text)]
  BY Fields, EmptySeq
<1>2. <<"chunk">> \in Seq(Text) /\ <<"crlf">> \in Seq(Text)
  BY DEF Text
<1>3. Units(item) \in Seq(Text)
  BY UnitsType
<1> QED
  BY <1>1, <1>2, <1>3, PushItem, Zenon

LEMMA RespondWell == Well /\ Respond => Well'
<1> SUFFICES ASSUME Well, Respond PROVE Well'
  OBVIOUS
<1> DEFINE item == Head(say)
           none == [io |-> con.io, sent |-> << >>]
           s == IF "chunked" \in con.flags THEN Push(Push(Push(none, <<"chunk">>), Units(item)), <<"crlf">>)
                ELSE Push(none, Units(item))
<1>1. /\ pc = "respond" /\ con \in Connection /\ con.depth = 1 /\ con.used
      /\ con.req \in Request /\ con.read <= con.req.body /\ Len(con.head) <= HeadMax
      /\ con.sock \in Clients /\ con.sock # None /\ say \in Seq(Text) /\ say # << >>
  BY Fields DEF Respond, Well, TypeOK, Shape
<1>2. item \in Text /\ Tail(say) \in Seq(Text)
  BY <1>1, FirstAndRest
<1>3. s \in [io : Seq(Text), sent : Seq(Text)]
  BY <1>2, Pushing DEF Well
<1> HIDE DEF s, item
<1>4. CASE /\ SendTo(con.sock, s.sent)
           /\ con' = [con EXCEPT !.io = s.io,
                         !.flags = @ \cup (IF item = "blank" /\ IsChunked(con.req)
                                           THEN {"chunked"} ELSE {})]
           /\ say' = Tail(say)
           /\ UNCHANGED <<client, inbox, backlog, pc, quit>>
  <2>1. s.io \in Seq(Text) /\ s.sent \in Seq(Text)
    BY <1>3
  <2>2. out' \in [Clients -> Seq(Text)]
    BY <1>1, <1>4, <2>1, Delivered DEF Well
  <2>3. /\ con' \in Connection /\ con'.used /\ con'.head = con.head /\ con'.depth = 1
        /\ con'.req = con.req /\ con'.read = con.read /\ con'.sock = con.sock
    BY <1>1, <1>4, <2>1, Zenon DEF Connection
  <2>4. TypeOK'
    BY <1>1, <1>2, <1>4, <2>2, <2>3, Zenon DEF Well, TypeOK, client
  <2>5. Shape'
    BY <1>1, <1>4, <2>3 DEF Well, Shape, client
  <2> QED BY <2>4, <2>5 DEF Well
<1> QED
  BY <1>4, KillWell DEF Respond, MayKill, s, item

LEMMA EndWell == Well /\ End => Well'
<1> SUFFICES ASSUME Well, End PROVE Well'
  OBVIOUS
<1> DEFINE none == [io |-> con.io, sent |-> << >>]
           s == IF "chunked" \in con.flags THEN Push(none, <<"last">>) ELSE none
           closes == EndsIt(con.req)
<1>1. /\ pc = "respond" /\ con \in Connection /\ con.depth = 1 /\ con.used
      /\ con.req \in Request /\ con.read <= con.req.body /\ Len(con.head) <= HeadMax
      /\ con.sock \in Clients /\ con.sock # None
  BY Fields DEF End, Well, TypeOK, Shape
<1>2. s \in [io : Seq(Text), sent : Seq(Text)]
  <2>1. none \in [io : Seq(Text), sent : Seq(Text)]
    BY Fields, EmptySeq DEF Well
  <2>2. <<"last">> \in Seq(Text)
    BY DEF Text
  <2> HIDE DEF none
  <2> QED BY <2>1, <2>2, PushItem, Zenon
<1> HIDE DEF s
<1>3. s.sent \o s.io \in Seq(Text)
  BY <1>2, ConcatProperties
<1>4. CASE /\ SendTo(con.sock, s.sent \o s.io)
           /\ phase' = (IF closes THEN Closed(con.sock) ELSE phase)
           /\ con' = IF closes THEN CloseCon([con EXCEPT !.io = << >>])
                     ELSE [con EXCEPT !.io = << >>, !.flags = @ \ {"chunked"}]
           /\ quit' = (quit \/ (con.req.uri = "quit" /\ ~ con.req.upgrade))
           /\ Goto("after")
           /\ UNCHANGED <<script, asked, rest, inbox, backlog, say>>
  <2>1. out' \in [Clients -> Seq(Text)]
    BY <1>1, <1>3, <1>4, Delivered, Zenon DEF Well
  <2>2. phase' \in [Clients -> {"idle", "open", "fin", "reset", "closed"}]
    BY <1>1, <1>4 DEF Well, TypeOK, Closed
  <2>3. quit' \in BOOLEAN
    BY <1>4 DEF Well, TypeOK
  <2>4. << >> \in Seq(Text)
    OBVIOUS
  <2>5. /\ con' \in Connection /\ con'.used /\ con'.head = con.head /\ con'.depth = 1
        /\ con'.req = con.req /\ con'.read = con.read
        /\ "alive" \in con'.flags => con'.sock # None
    <3>1. CASE closes
      <4>1. con' = [con EXCEPT !.io = << >>, !.sock = None, !.flags = {}]
        BY <1>1, <1>4, <3>1 DEF CloseCon, Connection
      <4> QED BY <1>1, <2>4, <4>1, Zenon DEF Connection
    <3>2. CASE ~ closes
      <4>1. con' = [con EXCEPT !.io = << >>, !.flags = con.flags \ {"chunked"}]
        BY <1>4, <3>2
      <4> QED BY <1>1, <2>4, <4>1, Zenon DEF Connection
    <3> QED BY <3>1, <3>2
  <2>6. TypeOK'
    BY <1>4, <2>1, <2>2, <2>3, <2>5 DEF Well, TypeOK, Goto
  <2>7. Shape'
    BY <1>1, <1>4, <2>5 DEF Well, Shape, Goto, Alive
  <2> QED BY <2>6, <2>7 DEF Well
<1> QED
  BY <1>4, KillWell DEF End, MayKill, s

LEMMA AfterWell == Well /\ After => Well'
<1> SUFFICES ASSUME Well, After PROVE Well'
  OBVIOUS
<1> DEFINE b == IF "alive" \in con.flags /\ con.depth = 1 THEN FALSE ELSE con.blocks
<1>1. /\ pc = "after" /\ con \in Connection /\ con.depth = 1 /\ con.used
      /\ con.req \in Request /\ con.read <= con.req.body /\ Len(con.head) <= HeadMax
      /\ UNCHANGED <<client, inbox, out, backlog, say, quit>>
  BY DEF After, Well, TypeOK, Shape
<1>2. SetNonblocking(con) = [con EXCEPT !.depth = 0, !.blocks = b] /\ b \in BOOLEAN
  <2>1. SetNonblocking(con) = [con EXCEPT !.depth = con.depth - 1, !.blocks = b]
    BY DEF SetNonblocking
  <2>2. con.depth - 1 = 0
    BY <1>1
  <2> QED BY <1>1, <2>1, <2>2, Zenon DEF Connection
<1> HIDE DEF b
<1>3. << >> \in Seq(Text) /\ << >> \in Seq(Item) /\ Len(<< >>) = 0 /\ HeadMax \in Nat
  BY WebAssumption
<1>4. CASE Alive /\ con' = [SetNonblocking(con) EXCEPT !.flags = @ \ {"alive"}] /\ Goto("compact")
  <2>1. con' = [con EXCEPT !.depth = 0, !.blocks = b, !.flags = con.flags \ {"alive"}]
    BY <1>1, <1>2, <1>4 DEF Connection
  <2>2. con' \in Connection /\ con'.used /\ con'.head = con.head /\ "alive" \notin con'.flags
    BY <1>1, <1>2, <2>1, Zenon DEF Connection
  <2> QED BY <1>1, <1>4, <2>2 DEF Well, TypeOK, Shape, client, Goto, Alive
<1>5. CASE Alive /\ con' = Reset(SetNonblocking(con)) /\ Goto("recv")
  <2>1. con' = [con EXCEPT !.depth = 0, !.blocks = b, !.head = << >>, !.io = << >>, !.left = 0,
                           !.read = 0]
    BY <1>1, <1>2, <1>5, Zenon DEF Reset, Connection
  <2>2. /\ con' \in Connection /\ con'.used /\ con'.head = << >> /\ con'.left = 0
        /\ con'.read = 0 /\ con'.depth = 0 /\ con'.sock = con.sock
    BY <1>1, <1>2, <1>3, <2>1, Zenon DEF Connection
  <2>3. con.sock # None
    BY <1>1, <1>5 DEF Well, Shape
  <2>4. TypeOK'
    BY <1>1, <1>5, <2>2 DEF Well, TypeOK, client, Goto
  <2>5. Shape'
    BY <1>1, <1>3, <1>5, <2>2, <2>3 DEF Well, Shape, client, Goto
  <2> QED BY <2>4, <2>5 DEF Well
<1>6. CASE ~ Alive /\ con' = SetNonblocking(con) /\ Goto("serve")
  <2>1. /\ con' \in Connection /\ con'.used /\ con'.head = con.head /\ con'.depth = 0
        /\ con'.req = con.req /\ con'.read = con.read /\ con'.flags = con.flags
    BY <1>1, <1>2, <1>6, Zenon DEF Connection
  <2> QED BY <1>1, <1>6, <2>1 DEF Well, TypeOK, Shape, client, Goto, Alive
<1> QED
  BY <1>4, <1>5, <1>6 DEF After

LEMMA CompactWell == Well /\ Compact => Well'
<1> SUFFICES ASSUME Well, Compact PROVE Well'
  OBVIOUS
<1>1. /\ pc = "compact" /\ con \in Connection /\ Len(con.head) <= HeadMax
      /\ con' = (IF Alive THEN con ELSE NoCon)
      /\ UNCHANGED <<script, asked, rest, inbox, out, backlog, say, quit>>
  BY DEF Compact, Well, TypeOK, Shape
<1>2. NoCon \in Connection
  <2>1. << >> \in Seq(Item) /\ << >> \in Seq(Text)
    OBVIOUS
  <2> QED BY <2>1 DEF NoCon, Connection
<1>3. phase' \in [Clients -> {"idle", "open", "fin", "reset", "closed"}]
  BY Zenon DEF Compact, Well, TypeOK, Stop, Closed
<1>4. pc' \in {"stopped", "select"}
  BY DEF Compact, Stop, Goto
<1>5. TypeOK'
  BY <1>1, <1>2, <1>3, <1>4 DEF Well, TypeOK
<1>6. CASE Alive
  <2>1. con' = con /\ con.sock # None /\ con.used /\ con.read = 0 /\ con.left = 0 /\ con.depth = 0
    BY <1>1, <1>6 DEF Well, Shape
  <2>2. asked' = asked /\ script' = script /\ backlog' = backlog
    BY <1>1
  <2> QED BY <1>1, <1>4, <1>5, <2>1, <2>2 DEF Well, Shape
<1>7. CASE ~ Alive
  <2>1. NoCon.head = << >> /\ Len(<< >>) = 0 /\ HeadMax \in Nat
    BY WebAssumption DEF NoCon
  <2>2. NoCon.sock = None /\ ~ NoCon.used /\ NoCon.read = 0 /\ NoCon.left = 0 /\ NoCon.depth = 0
    BY DEF NoCon
  <2>3. Len(NoCon.head) <= HeadMax
    BY <2>1
  <2>4. con' = NoCon
    BY <1>1, <1>7
  <2> QED BY <1>1, <1>4, <1>5, <2>2, <2>3, <2>4 DEF Well, Shape
<1> QED
  BY <1>5, <1>6, <1>7 DEF Well

LEMMA NextWell == Well /\ [Next]_vars => Well'
<1> SUFFICES ASSUME Well, [Next]_vars PROVE Well'
  OBVIOUS
<1>1. CASE UNCHANGED vars
  BY <1>1 DEF Well, TypeOK, Shape, vars, client, server, Alive
<1>2. CASE ServerNext
  BY <1>2, SelectWell, AcceptWell, RecvWell, ParseWell, ContinueWell, ServeWell, DiscardWell,
     RespondWell, EndWell, AfterWell, CompactWell DEF ServerNext
<1>3. ASSUME NEW c \in Clients, ClientNext(c) \/ Leave(c)
      PROVE  Well'
  BY <1>3, ClientWell
<1> QED
  BY <1>1, <1>2, <1>3 DEF Next

----------------------------------------------------------------------------
(***************************************************************************)
(* Clients add to what is under way, in order.                             *)
(***************************************************************************)
LEMMA AskFlight ==
  ASSUME Well, NEW c \in Clients, Ask(c), NEW k \in Nat \ {0}, NEW got \in Nat,
         InFlight(c, k, got), ~ (asked[c] = k /\ ~ Refused(script[c][k]))
  PROVE  InFlight(c, k, got)'
<1> DEFINE W == Wire(script[c][k])
           l == Len(inbox[c])
<1>1. /\ rest[c] = << >> /\ asked' = [asked EXCEPT ![c] = asked[c] + 1]
      /\ rest' = [rest EXCEPT ![c] = Wire(script[c][asked'[c]])]
      /\ script' = script /\ inbox' = inbox /\ asked \in [Clients -> Nat] /\ asked[c] \in Nat
      /\ rest \in [Clients -> Seq(Item)] /\ l \in Nat /\ asked[c] + 1 <= Len(script[c])
      /\ inbox[c] \in Seq(Item)
  <2>1. asked[c] < Len(script[c]) /\ asked[c] \in Nat /\ Len(script[c]) \in Nat /\ l \in Nat
    BY Fields DEF Ask, Well
  <2>2. inbox[c] \in Seq(Item) /\ asked \in [Clients -> Nat] /\ rest \in [Clients -> Seq(Item)]
    BY DEF Well, TypeOK
  <2> HIDE DEF l
  <2> QED BY <2>1, <2>2 DEF Ask
<1>2. asked'[c] = asked[c] + 1 /\ rest'[c] = Wire(script[c][asked[c] + 1])
  BY <1>1
<1>3. CASE asked[c] = k - 1 /\ got = 0 /\ inbox[c] = << >> /\ rest[c] = << >>
  <2>1. asked'[c] = k /\ rest'[c] = W /\ inbox'[c] = << >> /\ Len(<< >>) = 0
    BY <1>1, <1>2, <1>3
  <2>2. script[c][k] \in Request
    <3>1. k \in 1 .. Len(script[c]) /\ script[c] \in Seq(Request)
      BY <1>1, <1>3, Fields DEF Well
    <3> QED BY <3>1, ElementOfSeq
  <2>3. W \in Seq(Item) /\ Len(W) \in Nat /\ DOMAIN W = 1 .. Len(W)
    BY <2>2, WireItems, LenProperties
  <2>4. got + Len(inbox'[c]) + Len(rest'[c]) = Len(W)
    BY <2>1, <2>3, <1>3
  <2>5. \A i \in DOMAIN rest'[c] : rest'[c][i] = W[got + Len(inbox'[c]) + i]
    BY <2>1, <2>3, <1>3
  <2> QED BY <1>1, <2>1, <2>4, <2>5 DEF InFlight
<1>4. CASE asked[c] >= k
  <2>1. InFlight(c, k, got) /\ Refused(script[c][k])
    <3>1. asked[c] > k \/ asked[c] = k
      BY <1>1, <1>4
    <3>2. asked[c] # k - 1
      BY <1>1, <1>4
    <3> QED BY <3>1, <3>2, Zenon DEF InFlight
  <2>2. /\ got + l >= Len(W)
        /\ \A i \in DOMAIN inbox[c] : got + i <= Len(W) => inbox[c][i] = W[got + i]
    <3>1. Len(rest[c]) = 0
      BY <1>1
    <3>2. asked[c] # k - 1
      BY <1>1, <1>4
    <3> QED BY <1>1, <3>1, <3>2 DEF InFlight
  <2>3. asked'[c] > k /\ asked'[c] >= k
    BY <1>1, <1>2, <1>4
  <2> QED BY <1>1, <2>1, <2>2, <2>3, Zenon DEF InFlight
<1> QED
  BY <1>3, <1>4, Zenon DEF InFlight

LEMMA SendFlight ==
  ASSUME Well, NEW c \in Clients, Send(c), NEW k \in Nat \ {0}, NEW got \in Nat,
         InFlight(c, k, got)
  PROVE  InFlight(c, k, got)'
<1> DEFINE W == Wire(script[c][k])
           x == inbox[c]
           r == rest[c]
<1>1. /\ r # << >> /\ r \in Seq(Item) /\ x \in Seq(Item) /\ Len(x) \in Nat
      /\ inbox' = [inbox EXCEPT ![c] = Append(x, Head(r))]
      /\ rest' = [rest EXCEPT ![c] = Tail(r)]
      /\ script' = script /\ asked' = asked /\ asked[c] \in Nat
      /\ inbox \in [Clients -> Seq(Item)] /\ rest \in [Clients -> Seq(Item)]
  BY Fields, Zenon DEF Send, Well, TypeOK
<1>2. inbox'[c] = Append(x, Head(r)) /\ rest'[c] = Tail(r)
  BY <1>1
<1>3. /\ Len(r) \in Nat /\ Len(r) >= 1 /\ Head(r) = r[1] /\ Head(r) \in Item
      /\ Tail(r) \in Seq(Item) /\ Len(Tail(r)) = Len(r) - 1
      /\ \A i \in 1 .. Len(r) - 1 : Tail(r)[i] = r[i + 1]
  BY <1>1, FirstAndRest
<1>4. /\ Append(x, Head(r)) \in Seq(Item) /\ Len(Append(x, Head(r))) = Len(x) + 1
      /\ \A i \in 1 .. Len(x) : Append(x, Head(r))[i] = x[i]
      /\ Append(x, Head(r))[Len(x) + 1] = Head(r)
  BY <1>1, <1>3, AppendProperties
<1>5. /\ DOMAIN r = 1 .. Len(r) /\ DOMAIN x = 1 .. Len(x)
      /\ DOMAIN rest'[c] = 1 .. Len(r) - 1 /\ DOMAIN inbox'[c] = 1 .. Len(x) + 1
      /\ Len(rest'[c]) = Len(r) - 1 /\ Len(inbox'[c]) = Len(x) + 1
  BY <1>1, <1>2, <1>3, <1>4, LenProperties
<1>6. /\ asked[c] >= k
      /\ \A i \in DOMAIN x : got + i <= Len(W) => x[i] = W[got + i]
      /\ \/ asked[c] > k /\ Refused(script[c][k]) /\ got + Len(x) >= Len(W)
         \/ /\ asked[c] = k /\ got + Len(x) + Len(r) = Len(W)
            /\ \A i \in DOMAIN r : r[i] = W[got + Len(x) + i]
  BY <1>1 DEF InFlight
<1>7. CASE asked[c] > k /\ Refused(script[c][k]) /\ got + Len(x) >= Len(W)
  <2>1. got + Len(inbox'[c]) >= Len(W)
    BY <1>1, <1>5, <1>7
  <2>2. ASSUME NEW i \in DOMAIN inbox'[c], got + i <= Len(W) PROVE inbox'[c][i] = W[got + i]
    <3>1. i \in 1 .. Len(x)
      BY <1>1, <1>5, <1>7, <2>2
    <3> QED BY <3>1, <2>2, <1>2, <1>4, <1>5, <1>6
  <2> QED BY <1>1, <1>7, <2>1, <2>2, <1>6 DEF InFlight
<1>8. CASE /\ asked[c] = k /\ got + Len(x) + Len(r) = Len(W)
           /\ \A i \in DOMAIN r : r[i] = W[got + Len(x) + i]
  <2>1. got + Len(inbox'[c]) + Len(rest'[c]) = Len(W)
    BY <1>1, <1>3, <1>5, <1>8
  <2>2. ASSUME NEW i \in DOMAIN inbox'[c], got + i <= Len(W) PROVE inbox'[c][i] = W[got + i]
    <3>1. CASE i = Len(x) + 1
      <4>1. 1 \in DOMAIN r /\ got + Len(x) + 1 = got + i
        BY <1>1, <1>3, <1>5, <3>1
      <4>2. r[1] = W[got + i]
        BY <4>1, <1>8
      <4> QED BY <4>2, <3>1, <1>2, <1>3, <1>4
    <3>2. CASE i # Len(x) + 1
      <4>1. i \in 1 .. Len(x)
        BY <1>1, <1>5, <3>2
      <4> QED BY <4>1, <2>2, <1>2, <1>4, <1>5, <1>6
    <3> QED BY <3>1, <3>2
  <2>3. ASSUME NEW i \in DOMAIN rest'[c]
        PROVE  rest'[c][i] = W[got + Len(inbox'[c]) + i]
    <3>1. i \in 1 .. Len(r) - 1 /\ i + 1 \in DOMAIN r
      BY <1>3, <1>5
    <3>2. rest'[c][i] = r[i + 1] /\ r[i + 1] = W[got + Len(x) + (i + 1)]
      BY <3>1, <1>2, <1>3, <1>8, Zenon
    <3>3. got + Len(x) + (i + 1) = got + Len(inbox'[c]) + i
      BY <3>1, <1>1, <1>5
    <3> QED BY <3>2, <3>3
  <2> QED BY <1>1, <1>6, <1>8, <2>1, <2>2, <2>3, ZenonT(60) DEF InFlight
<1> QED
  BY <1>6, <1>7, <1>8, Zenon

LEMMA SameFlight ==
  ASSUME NEW c, NEW k, NEW got, script' = script, asked'[c] = asked[c],
         inbox'[c] = inbox[c], rest'[c] = rest[c], InFlight(c, k, got)
  PROVE  InFlight(c, k, got)'
BY DEF InFlight

\* A client does not go on before it has been answered.
LEMMA AskWaits ==
  ASSUME Well, NEW c \in Clients, NEW k \in Nat \ {0}, Begun(c, k), asked[c] = k,
         ~ Refused(script[c][k]), Len(out[c]) < Len(Stream(c, k))
  PROVE  ~ Ask(c)
BY DEF Ask

\* An answer has a head of at least three lines and a blank line: a client
\* that has received at most the 100 Continue is not answered.
LEMMA AnswerLength ==
  ASSUME Well, NEW c \in Clients, NEW k \in Nat \ {0}, Begun(c, k), k \in DOMAIN script[c],
         ~ Refused(script[c][k])
  PROVE  LET r == script[c][k] IN
         /\ Len(Stream(c, k - 1)) \in Nat /\ Len(Stream(c, k)) \in Nat
         /\ Len(Stream(c, k)) = Len(Stream(c, k - 1)) + Continued(r) + Len(Lines(r)) + 1
                                + FramedLen(r)
         /\ Continued(r) \in {0, 1} /\ Len(Lines(r)) \in Nat /\ Len(Lines(r)) >= 3
         /\ Len(Stream(c, k)) > Len(Stream(c, k - 1)) + 1
<1> DEFINE r == script[c][k]
           b == Len(Stream(c, k - 1))
           h == Len(Lines(r))
           n == Len(Stream(c, k))
<1>1. /\ r \in Request /\ b \in Nat /\ n = b + Len(Answer(r))
  BY StreamServes DEF Well, TypeOK
<1>2. Len(Answer(r)) = Continued(r) + h + 1 + FramedLen(r)
  BY <1>1, AnswerItems
<1>3. h \in Nat /\ h >= 3 /\ Continued(r) \in {0, 1}
  BY <1>1, HeaderText, LenProperties DEF Continued
<1> HIDE DEF b, h, n, r
<1> DEFINE x == FramedLen(r)
           e == Continued(r)
<1>4. x \in Nat \ {0}
  BY FramedLengths
<1> HIDE DEF x, e
<1>5. n = b + (e + h + 1 + x) /\ e \in {0, 1}
  BY <1>1, <1>2, <1>3 DEF x, e
<1>6. n = b + e + h + 1 + x /\ n > b + 1 /\ n \in Nat
  BY <1>1, <1>3, <1>4, <1>5
<1> QED
  BY <1>1, <1>3, <1>6, Zenon DEF b, h, n, r, x, e

----------------------------------------------------------------------------
(***************************************************************************)
(* The clients that are not served are kept apart from what the server     *)
(* does.                                                                   *)
(***************************************************************************)
Apart == Quiet /\ Queued

LEMMA StillWaiting ==
  ASSUME NEW c, Waiting(c), script' = script, asked'[c] = asked[c], inbox'[c] = inbox[c],
         rest'[c] = rest[c], out'[c] = out[c], phase'[c] # "idle",
         phase'[c] = "open" => Open(c), c # con'.sock
  PROVE  Waiting(c)'
<1>1. Open(c) => InFlight(c, 1, 0)'
  BY SameFlight DEF Waiting
<1> QED
  BY <1>1 DEF Waiting, Open

LEMMA ApartKept ==
  ASSUME Well, Apart, script' = script, asked' = asked, rest' = rest, backlog' = backlog,
         con'.sock \in {con.sock, None},
         \A d \in Clients : d # con.sock =>
           phase'[d] = phase[d] /\ inbox'[d] = inbox[d] /\ out'[d] = out[d],
         con.sock # None => phase'[con.sock] # "idle"
  PROVE  Apart'
<1>1. None \notin Clients
  BY WebAssumption
<1>2. Quiet'
  <2> SUFFICES ASSUME NEW c \in Clients, phase'[c] = "idle"
               PROVE  asked'[c] = 0 /\ inbox'[c] = << >> /\ rest'[c] = << >> /\ out'[c] = << >>
    BY DEF Quiet
  <2>1. c # con.sock
    BY <1>1
  <2> QED BY <2>1 DEF Apart, Quiet
<1>3. ASSUME NEW c \in Clients, InBacklog(c)
      PROVE  Waiting(c)'
  <2>1. Waiting(c) /\ c # None
    BY <1>1, <1>3 DEF Apart, Queued
  <2>2. c # con.sock /\ c # con'.sock /\ phase[c] # "idle"
    BY <2>1 DEF Waiting
  <2> QED BY <2>1, <2>2, StillWaiting DEF Open
<1>4. \A c \in Clients : InBacklog(c)' => InBacklog(c)
  BY DEF InBacklog
<1>5. Queued'
  <2>1. \A i, j \in DOMAIN backlog : i # j => backlog[i] # backlog[j]
    BY DEF Apart, Queued
  <2> QED BY <1>3, <1>4, <2>1 DEF Queued
<1> QED
  BY <1>2, <1>5 DEF Apart

LEMMA ApartClosed ==
  ASSUME Well, Apart, phase' = [c \in Clients |-> "closed"], backlog' = backlog,
         con'.sock \in {con.sock, None}
  PROVE  Apart'
<1>1. \A c \in Clients : phase'[c] = "closed"
  OBVIOUS
<1>2. Quiet'
  BY <1>1 DEF Quiet
<1>3. ASSUME NEW c \in Clients, InBacklog(c)
      PROVE  Waiting(c)'
  <2>1. c # None /\ c # con.sock
    BY <1>3, WebAssumption DEF Apart, Queued, Waiting
  <2> QED BY <1>1, <2>1 DEF Waiting, Open
<1>4. con.sock # None => con.sock \in Clients
  BY Fields DEF Well
<1>5. \A c \in Clients : InBacklog(c)' => InBacklog(c)
  BY DEF InBacklog
<1>6. Queued'
  <2>1. \A i, j \in DOMAIN backlog : i # j => backlog[i] # backlog[j]
    BY DEF Apart, Queued
  <2> QED BY <1>1, <1>3, <1>4, <1>5, <2>1 DEF Queued
<1> QED
  BY <1>2, <1>6 DEF Apart

LEMMA ConnectApart ==
  ASSUME Well, Apart, NEW c \in Clients, Connect(c)
  PROVE  Apart'
<1> DEFINE B == Append(backlog, c)
           n == Len(backlog)
<1>1. /\ phase[c] = "idle" /\ phase' = [phase EXCEPT ![c] = "open"]
      /\ backlog' = B /\ backlog \in Seq(Clients) /\ c # None
      /\ phase \in [Clients -> {"idle", "open", "fin", "reset", "closed"}]
      /\ script' = script /\ asked' = asked /\ rest' = rest /\ inbox' = inbox /\ out' = out
      /\ con' = con
  BY WebAssumption DEF Connect, Well, TypeOK, server
<1>2. /\ n \in Nat /\ DOMAIN backlog = 1 .. n /\ DOMAIN B = 1 .. n + 1
      /\ B[n + 1] = c /\ \A i \in 1 .. n : B[i] = backlog[i]
  <2>1. n \in Nat /\ DOMAIN backlog = 1 .. n
    BY <1>1, LenProperties
  <2>2. /\ B \in Seq(Clients) /\ Len(B) = n + 1 /\ B[n + 1] = c
        /\ \A i \in 1 .. n : B[i] = backlog[i]
    BY <1>1, AppendProperties
  <2>3. DOMAIN B = 1 .. n + 1
    BY <2>2, LenProperties
  <2> QED BY <2>1, <2>2, <2>3
<1> HIDE DEF B, n
<1>3. ~ InBacklog(c) /\ c # con.sock
  BY <1>1 DEF Apart, Queued, Waiting
<1>4. \A d \in Clients : InBacklog(d)' => d = c \/ InBacklog(d)
  <2> SUFFICES ASSUME NEW d \in Clients, InBacklog(d)', d # c PROVE InBacklog(d)
    OBVIOUS
  <2>1. PICK i \in 1 .. n + 1 : B[i] = d
    BY <1>1, <1>2 DEF InBacklog
  <2>2. i \in 1 .. n
    BY <1>2, <2>1
  <2> QED BY <1>2, <2>1, <2>2 DEF InBacklog
<1>5. Quiet'
  BY <1>1 DEF Apart, Quiet
<1>6. Waiting(c)'
  <2>1. asked[c] = 0 /\ inbox[c] = << >> /\ rest[c] = << >> /\ out[c] = << >>
    BY <1>1 DEF Apart, Quiet
  <2>2. InFlight(c, 1, 0)'
    BY <1>1, <2>1 DEF InFlight
  <2> QED BY <1>1, <1>3, <2>1, <2>2 DEF Waiting, Open
<1>7. ASSUME NEW d \in Clients, d # c, InBacklog(d)
      PROVE  Waiting(d)'
  <2>1. Waiting(d) /\ phase'[d] = phase[d]
    BY <1>1, <1>7 DEF Apart, Queued
  <2> QED BY <1>1, <2>1, StillWaiting DEF Waiting, Open
<1>8. \A i, j \in 1 .. n + 1 : i # j => B[i] # B[j]
  <2>1. \A i, j \in 1 .. n : i # j => backlog[i] # backlog[j]
    BY <1>2 DEF Apart, Queued
  <2>2. \A i \in 1 .. n : backlog[i] # c
    BY <1>2, <1>3 DEF InBacklog
  <2>3. \A i \in 1 .. n + 1 : i = n + 1 \/ i \in 1 .. n
    BY <1>2
  <2> QED BY <2>1, <2>2, <2>3, <1>2
<1>9. con'.sock # None => phase'[con'.sock] # "idle"
  BY <1>1, <1>3, Fields DEF Apart, Queued, Well
<1>10. Queued'
  BY <1>1, <1>2, <1>4, <1>6, <1>7, <1>8, <1>9 DEF Queued
<1> QED
  BY <1>5, <1>10 DEF Apart

LEMMA BegunFirst == \A c : Begun(c, 1)
BY DEF Begun

LEMMA ClientApart ==
  ASSUME Well, Apart, NEW c \in Clients, Ask(c) \/ Send(c) \/ Finish(c) \/ Leave(c)
  PROVE  Apart'
<1>1. /\ phase[c] = "open" /\ backlog' = backlog /\ con' = con /\ out' = out /\ script' = script
      /\ phase \in [Clients -> {"idle", "open", "fin", "reset", "closed"}]
      /\ out[c] \in Seq(Text)
  BY Fields, Zenon DEF Ask, Send, Finish, Leave, server, Well, TypeOK
<1>2. /\ phase' \in [Clients -> {"idle", "open", "fin", "reset", "closed"}]
      /\ phase'[c] # "idle" /\ (phase' = phase \/ phase'[c] # "open")
      /\ \A d \in Clients : d # c => phase'[d] = phase[d]
  <2>1. CASE Ask(c) \/ Send(c)
    BY <1>1, <2>1 DEF Ask, Send
  <2>2. CASE Finish(c)
    BY <1>1, <2>2 DEF Finish
  <2>3. CASE Leave(c)
    <3>1. PICK p \in {"fin", "reset"} : phase' = [phase EXCEPT ![c] = p]
      BY <2>3, Zenon DEF Leave
    <3> QED BY <1>1, <3>1
  <2> QED BY <2>1, <2>2, <2>3
<1>3. \A d \in Clients : d # c =>
        asked'[d] = asked[d] /\ inbox'[d] = inbox[d] /\ rest'[d] = rest[d]
  BY DEF Ask, Send, Finish, Leave, Well, TypeOK
<1>4. Quiet'
  BY <1>1, <1>2, <1>3 DEF Apart, Quiet
<1>5. ASSUME NEW d \in Clients, d # c, InBacklog(d)
      PROVE  Waiting(d)'
  <2>1. Waiting(d) /\ phase'[d] = phase[d]
    BY <1>2, <1>5 DEF Apart, Queued
  <2> QED BY <1>1, <1>3, <1>5, <2>1, StillWaiting DEF Waiting, Open
<1>6. ASSUME InBacklog(c)
      PROVE  Waiting(c)'
  <2>1. Waiting(c) /\ Open(c) /\ c # con.sock /\ out[c] = << >> /\ InFlight(c, 1, 0)
    BY <1>1, <1>6 DEF Apart, Queued, Open, Waiting
  <2>2. CASE Finish(c) \/ Leave(c)
    <3>1. phase'[c] # "open"
      <4>1. CASE Finish(c)
        BY <1>1, <4>1 DEF Finish
      <4>2. CASE Leave(c)
        BY <1>1, <4>2 DEF Leave
      <4> QED BY <2>2, <4>1, <4>2
    <3> QED BY <1>1, <1>2, <2>1, <3>1 DEF Waiting, Open
  <2>3. CASE Send(c)
    <3>1. InFlight(c, 1, 0)'
      BY <2>1, <2>3, SendFlight
    <3> QED BY <1>1, <1>2, <2>1, <3>1 DEF Waiting, Open
  <2>4. CASE Ask(c)
    <3>1. ~ (asked[c] = 1 /\ ~ Refused(script[c][1]))
      <4> SUFFICES ASSUME asked[c] = 1, ~ Refused(script[c][1]) PROVE FALSE
        OBVIOUS
      <4>1. 1 \in DOMAIN script[c]
        <5>1. asked[c] <= Len(script[c]) /\ Len(script[c]) \in Nat /\ script[c] \in Seq(Request)
          BY Fields DEF Well, Shape
        <5>2. 1 \in 1 .. Len(script[c])
          BY <5>1
        <5> QED BY <5>1, <5>2, LenProperties
      <4>2. /\ Len(Stream(c, 1)) > Len(Stream(c, 1 - 1)) + 1
            /\ Len(Stream(c, 1 - 1)) \in Nat /\ Len(Stream(c, 1)) \in Nat
        BY <4>1, BegunFirst, AnswerLength
      <4>3. Len(out[c]) < Len(Stream(c, 1))
        BY <4>2, <2>1
      <4> QED BY <4>3, <2>4, BegunFirst, AskWaits
    <3>2. InFlight(c, 1, 0)'
      BY <2>1, <2>4, <3>1, AskFlight
    <3> QED BY <1>1, <1>2, <2>1, <3>2 DEF Waiting, Open
  <2> QED BY <2>2, <2>3, <2>4
<1>7. con.sock # None => phase'[con.sock] # "idle"
  BY <1>1, <1>2, Fields DEF Apart, Queued, Well
<1>8. Queued'
  <2>1. \A i, j \in DOMAIN backlog : i # j => backlog[i] # backlog[j]
    BY DEF Apart, Queued
  <2>2. \A d \in Clients : InBacklog(d)' => InBacklog(d)
    BY <1>1 DEF InBacklog
  <2> QED BY <1>1, <1>5, <1>6, <1>7, <2>1, <2>2 DEF Queued
<1> QED
  BY <1>4, <1>8 DEF Apart

LEMMA AcceptApart == Well /\ Apart /\ Accept => Apart'
<1> SUFFICES ASSUME Well, Apart, Accept PROVE Apart'
  OBVIOUS
<1> DEFINE h == Head(backlog)
           t == Tail(backlog)
           n == Len(backlog)
<1>1. /\ backlog \in Seq(Clients) /\ backlog # << >> /\ con'.sock = h /\ backlog' = t
      /\ script' = script /\ asked' = asked /\ rest' = rest /\ inbox' = inbox /\ out' = out
      /\ phase' = phase
  BY DEF Accept, Well, TypeOK, Shape, client, NoCon
<1>2. /\ n \in Nat /\ n >= 1 /\ h = backlog[1] /\ h \in Clients
      /\ t \in Seq(Clients) /\ Len(t) = n - 1
      /\ \A i \in 1 .. n - 1 : t[i] = backlog[i + 1]
  BY <1>1, FirstAndRest
<1>3. DOMAIN backlog = 1 .. n /\ DOMAIN t = 1 .. n - 1
  BY <1>1, <1>2, LenProperties
<1> HIDE DEF h, t, n
<1>4. Quiet'
  BY <1>1 DEF Apart, Quiet
<1>5. ASSUME NEW d \in Clients, InBacklog(d)'
      PROVE  Waiting(d)'
  <2>1. PICK i \in 1 .. n - 1 : t[i] = d
    BY <1>1, <1>3, <1>5 DEF InBacklog
  <2>2. i + 1 \in DOMAIN backlog /\ 1 \in DOMAIN backlog /\ i + 1 # 1
    BY <1>2, <1>3
  <2>3. backlog[i + 1] = d /\ d # h
    BY <1>2, <2>1, <2>2 DEF Apart, Queued
  <2>4. Waiting(d)
    BY <2>2, <2>3 DEF Apart, Queued, InBacklog
  <2> QED BY <1>1, <2>3, <2>4, StillWaiting DEF Waiting, Open
<1>6. \A i, j \in 1 .. n - 1 : i # j => t[i] # t[j]
  <2> TAKE i, j \in 1 .. n - 1
  <2>1. i + 1 \in DOMAIN backlog /\ j + 1 \in DOMAIN backlog /\ (i # j => i + 1 # j + 1)
    BY <1>2, <1>3
  <2>2. i # j => backlog[i + 1] # backlog[j + 1]
    BY <2>1 DEF Apart, Queued
  <2> QED BY <2>2, <1>2
<1>7. phase[h] # "idle"
  <2>1. 1 \in DOMAIN backlog
    BY <1>2, <1>3
  <2> QED BY <1>2, <2>1 DEF Apart, Queued, InBacklog, Waiting
<1>8. Queued'
  BY <1>1, <1>3, <1>5, <1>6, <1>7 DEF Queued
<1> QED
  BY <1>4, <1>8 DEF Apart

----------------------------------------------------------------------------
(***************************************************************************)
(* Steps of the clients keep the session of the one that is served. What   *)
(* it adds, it adds behind what is under way (SendSession), and it never   *)
(* asks while the answer to its last request is incomplete (AskSession).   *)
(***************************************************************************)
LEMMA SessionKept ==
  ASSUME NEW c, NEW k, Session(c, k), con' = con, pc' = pc, say' = say, script' = script,
         asked'[c] = asked[c], inbox'[c] = inbox[c], rest'[c] = rest[c], out'[c] = out[c]
  PROVE  Session(c, k)'
<1>1. Begun(c, k)'
  BY SameStream DEF Session
<1>2. Reading(c, k) => Reading(c, k)'
  BY SameStream, Zenon DEF Reading, InFlight
<1>3. Serving(c, k) => Serving(c, k)'
  BY DEF Serving
<1>4. InBody(c, k) => InBody(c, k)'
  BY <1>3, SameStream DEF InBody
<1>5. Following(c, k) => Following(c, k)'
  BY SameStream, Zenon DEF Following, InFlight
<1>6. Responding(c, k) => Responding(c, k)'
  BY <1>3, <1>5, SameStream, Zenon DEF Responding
<1>7. Answered(c, k) => Answered(c, k)'
  BY <1>3, <1>5, SameStream DEF Answered
<1> QED
  BY <1>1, <1>2, <1>4, <1>6, <1>7 DEF Session, Alive

LEMMA SendSession ==
  ASSUME Well, NEW c \in Clients, NEW k \in Nat \ {0}, Session(c, k), Send(c)
  PROVE  Session(c, k)'
<1>1. /\ con' = con /\ pc' = pc /\ say' = say /\ script' = script /\ asked' = asked /\ out' = out
      /\ inbox' = [inbox EXCEPT ![c] = Append(inbox[c], Head(rest[c]))]
      /\ rest' = [rest EXCEPT ![c] = Tail(rest[c])] /\ rest[c] # << >>
  BY DEF Send, server
<1>2. Begun(c, k)'
  BY <1>1, SameStream DEF Session
<1>3. Reading(c, k) => Reading(c, k)'
  <2> SUFFICES ASSUME Reading(c, k) PROVE Reading(c, k)'
    OBVIOUS
  <2>1. PICK g \in Nat : g = Len(con.head)
    BY Fields, Zenon DEF Well
  <2>2. InFlight(c, k, g)
    BY <2>1, Zenon DEF Reading, InFlight
  <2>3. InFlight(c, k, g)'
    BY <2>2, SendFlight
  <2>4. InFlight(c, k, Len(con.head))'
    BY <1>1, <2>1, <2>3, ZenonT(60) DEF InFlight
  <2> QED BY <1>1, <2>4, SameStream DEF Reading
<1>4. Serving(c, k) => Serving(c, k)'
  BY <1>1 DEF Serving
<1>5. InBody(c, k) => InBody(c, k)'
  <2> SUFFICES ASSUME InBody(c, k) PROVE InBody(c, k)'
    OBVIOUS
  <2>1. /\ rest[c] \in Seq(Item) /\ inbox[c] \in Seq(Item) /\ Len(inbox[c]) \in Nat
        /\ con.left \in Nat /\ con.read \in Nat /\ con.req.body \in Nat
    BY Fields DEF Well
  <2>2. /\ Len(rest[c]) \in Nat /\ Len(rest[c]) >= 1 /\ Head(rest[c]) \in Item
        /\ Len(Tail(rest[c])) = Len(rest[c]) - 1
    BY <1>1, <2>1, FirstAndRest
  <2>3. Len(Append(inbox[c], Head(rest[c]))) = Len(inbox[c]) + 1
    BY <2>1, <2>2, AppendProperties
  <2>4. inbox'[c] = Append(inbox[c], Head(rest[c])) /\ rest'[c] = Tail(rest[c])
    BY <1>1 DEF Well, TypeOK
  <2>5. Len(inbox'[c]) = Len(inbox[c]) + 1 /\ Len(rest'[c]) = Len(rest[c]) - 1
    BY <2>2, <2>3, <2>4
  <2>6. con.left + con.read + Len(inbox[c]) + Len(rest[c]) = con.req.body
    BY DEF InBody
  <2>7. con.left + con.read + Len(inbox'[c]) + Len(rest'[c]) = con.req.body
    <3> DEFINE left == con.left
               read == con.read
               body == con.req.body
               i == Len(inbox[c])
               i1 == Len(inbox'[c])
               t == Len(rest[c])
               t1 == Len(rest'[c])
    <3>1. left \in Nat /\ read \in Nat /\ body \in Nat /\ i \in Nat /\ t \in Nat
      BY <2>1, <2>2
    <3>2. i1 = i + 1 /\ t1 = t - 1 /\ left + read + i + t = body
      BY <2>5, <2>6
    <3> HIDE DEF left, read, body, i, i1, t, t1
    <3>3. left + read + i1 + t1 = body
      BY <3>1, <3>2
    <3> QED BY <3>3 DEF left, read, body, i1, t1
  <2> QED BY <1>1, <1>4, <2>7, SameStream DEF InBody
<1>6. Following(c, k) => Following(c, k)'
  <2>1. k + 1 \in Nat \ {0} /\ 0 \in Nat
    OBVIOUS
  <2> QED BY <1>1, <2>1, SendFlight, SameStream DEF Following
<1>7. Responding(c, k) => Responding(c, k)'
  BY <1>1, <1>4, <1>6, SameStream, Zenon DEF Responding
<1>8. Answered(c, k) => Answered(c, k)'
  BY <1>1, <1>4, <1>6, SameStream DEF Answered
<1> QED
  BY <1>1, <1>2, <1>3, <1>5, <1>7, <1>8 DEF Session, Alive

LEMMA AskFollowing ==
  ASSUME Well, NEW c \in Clients, NEW k \in Nat \ {0}, Begun(c, k), k \in DOMAIN script[c],
         Following(c, k), Ask(c), Len(out[c]) <= Len(Stream(c, k)), Len(Stream(c, k)) \in Nat
  PROVE  Following(c, k)'
<1>1. k + 1 \in Nat \ {0} /\ 0 \in Nat /\ script' = script
  BY DEF Ask
<1> SUFFICES ASSUME ~ IsLast(c, k) PROVE InFlight(c, k + 1, 0)'
  BY <1>1, SameStream DEF Following
<1>2. Begun(c, k + 1)
  BY DEF Begun
<1>3. ~ (asked[c] = k + 1 /\ ~ Refused(script[c][k + 1]))
  <2> SUFFICES ASSUME asked[c] = k + 1, ~ Refused(script[c][k + 1]) PROVE FALSE
    OBVIOUS
  <2>1. k + 1 \in DOMAIN script[c]
    <3>1. asked[c] <= Len(script[c]) /\ Len(script[c]) \in Nat /\ script[c] \in Seq(Request)
      BY Fields DEF Well, Shape
    <3>2. k + 1 \in 1 .. Len(script[c])
      BY <3>1
    <3> QED BY <3>1, <3>2, LenProperties
  <2>2. /\ Len(Stream(c, k + 1)) > Len(Stream(c, (k + 1) - 1)) + 1
        /\ Len(Stream(c, k + 1)) \in Nat
    BY <1>1, <1>2, <2>1, AnswerLength
  <2>3. (k + 1) - 1 = k /\ Len(out[c]) \in Nat
    BY Fields DEF Well
  <2>4. Len(out[c]) < Len(Stream(c, k + 1))
    BY <2>2, <2>3
  <2> QED BY <1>1, <1>2, <2>4, AskWaits
<1>4. InFlight(c, k + 1, 0)
  BY DEF Following
<1> QED
  BY <1>1, <1>3, <1>4, AskFlight

\* Fewer items than the whole answer are sent before response_end.
LEMMA SentBound ==
  ASSUME NEW r \in Request, NEW p \in 0 .. Len(Lines(r)) + 2
  PROVE  /\ Sent(r, p) \in Nat
         /\ Sent(r, p) <= Continued(r) + Len(Lines(r)) + 1 + FramedLen(r)
<1> DEFINE h == Len(Lines(r))
           e == Continued(r)
           x == FramedLen(r)
           y == PushedLen(r)
<1>1. h \in Nat /\ e \in {0, 1}
  BY HeaderText, LenProperties DEF Continued
<1>2. x \in Nat /\ y \in Nat /\ y <= x + 1
  BY FramedLengths
<1>3. Sent(r, p) = e + (IF p = h + 2 THEN h + y ELSE p)
  BY DEF Sent
<1> HIDE DEF h, e, x, y
<1>4. p \in 0 .. h + 2
  BY DEF h
<1>5. Sent(r, p) \in Nat /\ Sent(r, p) <= e + h + 1 + x
  BY <1>1, <1>2, <1>3, <1>4
<1> QED
  BY <1>5 DEF h, e, x

LEMMA RespondingBound ==
  ASSUME Well, NEW c \in Clients, NEW k \in Nat \ {0}, Begun(c, k), Responding(c, k)
  PROVE  /\ k \in DOMAIN script[c] /\ Len(Stream(c, k)) \in Nat
         /\ Len(out[c]) + Len(con.io) <= Len(Stream(c, k)) /\ Len(out[c]) <= Len(Stream(c, k))
<1> DEFINE r == con.req
           b == Len(Stream(c, k - 1))
           m == Continued(r) + Len(Lines(r)) + 1 + FramedLen(r)
<1>1. Serving(c, k) /\ r = script[c][k] /\ k \in DOMAIN script[c] /\ ~ Refused(script[c][k])
  BY DEF Responding, Serving
<1>2. r \in Request
  BY <1>1, StreamServes DEF Well, TypeOK
<1>3. /\ Len(Stream(c, k - 1)) \in Nat /\ Len(Stream(c, k)) \in Nat
      /\ Len(Stream(c, k)) = Len(Stream(c, k - 1)) + Continued(r) + Len(Lines(r)) + 1
                             + FramedLen(r)
      /\ Continued(r) \in {0, 1} /\ Len(Lines(r)) \in Nat
  BY <1>1, AnswerLength
<1>4. PICK p \in 0 .. Len(Lines(r)) + 2 : Len(out[c]) + Len(con.io) = b + Sent(r, p)
  BY Zenon DEF Responding
<1>5. Sent(r, p) \in Nat /\ Sent(r, p) <= m
  BY <1>2, SentBound
<1>6. Len(out[c]) \in Nat /\ Len(con.io) \in Nat
  BY Fields, LenProperties DEF Well
<1>7. Len(Stream(c, k)) = b + m /\ m \in Nat
  <2> DEFINE e == Continued(r)
             h == Len(Lines(r))
             x == FramedLen(r)
             l == Len(Stream(c, k))
  <2>1. e \in {0, 1} /\ h \in Nat /\ x \in Nat /\ b \in Nat /\ l = b + e + h + 1 + x
    BY <1>3, FramedLengths
  <2>2. m = e + h + 1 + x
    OBVIOUS
  <2> HIDE DEF e, h, x, b, m, l
  <2>3. l = b + m /\ m \in Nat
    BY <2>1, <2>2
  <2> QED BY <2>3 DEF l
<1> DEFINE o == Len(out[c])
           i == Len(con.io)
           l == Len(Stream(c, k))
           s == Sent(r, p)
<1>8. /\ b \in Nat /\ o \in Nat /\ i \in Nat /\ l \in Nat /\ s \in Nat /\ s <= m
      /\ o + i = b + s /\ l = b + m
  BY <1>3, <1>4, <1>5, <1>6, <1>7, Zenon
<1>9. o + i <= l /\ o <= l
  <2> HIDE DEF b, m, o, i, l, s
  <2> QED BY <1>7, <1>8
<1> QED
  BY <1>1, <1>3, <1>9, Zenon

LEMMA AskSession ==
  ASSUME Well, NEW c \in Clients, NEW k \in Nat \ {0}, Session(c, k), Ask(c)
  PROVE  Session(c, k)'
<1>1. /\ con' = con /\ pc' = pc /\ say' = say /\ script' = script /\ out' = out /\ inbox' = inbox
      /\ asked' = [asked EXCEPT ![c] = asked[c] + 1] /\ asked[c] \in Nat
      /\ asked \in [Clients -> Nat] /\ Len(out[c]) \in Nat
  BY Fields DEF Ask, server, Well, TypeOK
<1>2. Begun(c, k) /\ Begun(c, k)'
  BY <1>1, SameStream DEF Session
<1>3. Reading(c, k) => Reading(c, k)'
  <2> SUFFICES ASSUME Reading(c, k) PROVE Reading(c, k)'
    OBVIOUS
  <2>1. PICK g \in Nat : g = Len(con.head)
    BY Fields DEF Well
  <2>2. InFlight(c, k, g)
    BY <2>1 DEF Reading, InFlight
  <2>3. ~ (asked[c] = k /\ ~ Refused(script[c][k]))
    <3> SUFFICES ASSUME asked[c] = k, ~ Refused(script[c][k]) PROVE FALSE
      OBVIOUS
    <3>1. k \in DOMAIN script[c]
      <4>1. asked[c] <= Len(script[c]) /\ Len(script[c]) \in Nat /\ script[c] \in Seq(Request)
        BY Fields DEF Well, Shape
      <4>2. k \in 1 .. Len(script[c])
        BY <4>1
      <4> QED BY <4>1, <4>2, LenProperties
    <3>2. Len(out[c]) < Len(Stream(c, k))
      BY <1>2, <3>1, AnswerLength DEF Reading
    <3> QED BY <1>2, <3>2, AskWaits
  <2>4. InFlight(c, k, g)'
    BY <2>2, <2>3, AskFlight
  <2>5. InFlight(c, k, Len(con.head))'
    BY <1>1, <2>1, <2>4, Zenon DEF InFlight
  <2> QED BY <1>1, <2>5, SameStream DEF Reading
<1>4. Serving(c, k) => Serving(c, k)'
  BY <1>1 DEF Serving
<1>5. ~ InBody(c, k)
  <2> SUFFICES ASSUME InBody(c, k) PROVE FALSE
    OBVIOUS
  <2>1. k \in DOMAIN script[c] /\ ~ Refused(script[c][k]) /\ asked[c] = k
    BY DEF InBody, Serving
  <2>2. /\ Len(Stream(c, k)) > Len(Stream(c, k - 1)) + 1
        /\ Len(Stream(c, k - 1)) \in Nat /\ Len(Stream(c, k)) \in Nat
    BY <1>2, <2>1, AnswerLength
  <2>3. Len(out[c]) <= Len(Stream(c, k - 1)) + 1
    BY <2>2 DEF InBody, Continued
  <2>4. Len(out[c]) < Len(Stream(c, k))
    BY <1>1, <2>2, <2>3
  <2> QED BY <1>2, <2>1, <2>4, AskWaits
<1>6. Responding(c, k) => Responding(c, k)'
  <2> SUFFICES ASSUME Responding(c, k) PROVE Responding(c, k)'
    OBVIOUS
  <2>1. Following(c, k)'
    BY <1>2, RespondingBound, AskFollowing, Zenon DEF Responding
  <2>2. asked'[c] >= k
    BY <1>1 DEF Responding
  <2> QED BY <1>1, <1>4, <2>1, <2>2, SameStream, Zenon DEF Responding
<1>7. Answered(c, k) => Answered(c, k)'
  <2> SUFFICES ASSUME Answered(c, k) PROVE Answered(c, k)'
    OBVIOUS
  <2>1. k \in DOMAIN script[c] /\ ~ Refused(script[c][k]) /\ Len(out[c]) = Len(Stream(c, k))
    BY DEF Answered, Serving
  <2>2. Len(Stream(c, k)) \in Nat
    BY <1>2, <2>1, AnswerLength
  <2>3. Following(c, k)'
    BY <1>2, <2>1, <2>2, AskFollowing DEF Answered
  <2>4. asked'[c] >= k
    BY <1>1 DEF Answered
  <2> QED BY <1>1, <1>4, <2>3, <2>4, SameStream DEF Answered
<1> QED
  BY <1>1, <1>2, <1>3, <1>5, <1>6, <1>7 DEF Session, Alive

LEMMA ClientSessions ==
  ASSUME Well, Apart, Sessions, NEW d \in Clients, ClientNext(d) \/ Leave(d)
  PROVE  Sessions'
<1> SUFFICES ASSUME NEW c \in Clients, c = con'.sock, phase'[c] = "open"
             PROVE  \E k \in Nat \ {0} : Session(c, k)'
  BY DEF Sessions, Open
<1>1. /\ con' = con /\ pc' = pc /\ say' = say /\ script' = script /\ out' = out
      /\ phase \in [Clients -> {"idle", "open", "fin", "reset", "closed"}]
  BY Zenon DEF ClientNext, Connect, Ask, Send, Finish, Leave, server, Well, TypeOK
<1>2. c = con.sock /\ phase[c] # "idle"
  BY <1>1, WebAssumption DEF Apart, Queued
<1>3. CASE Connect(d)
  <2>1. d # c /\ phase' = [phase EXCEPT ![d] = "open"]
    BY <1>2, <1>3 DEF Connect
  <2>2. Open(c) /\ asked' = asked /\ inbox' = inbox /\ rest' = rest
    BY <1>1, <1>3, <2>1 DEF Connect, Open
  <2> QED BY <1>1, <1>2, <2>2, SessionKept DEF Sessions
<1>4. CASE Ask(d) \/ Send(d)
  <2>1. phase' = phase /\ Open(c)
    BY <1>4 DEF Ask, Send, Open
  <2>2. PICK k \in Nat \ {0} : Session(c, k)
    BY <1>2, <2>1 DEF Sessions
  <2>3. CASE d = c
    BY <1>4, <2>2, <2>3, AskSession, SendSession
  <2>4. CASE d # c
    <3>1. asked'[c] = asked[c] /\ inbox'[c] = inbox[c] /\ rest'[c] = rest[c]
      BY <1>4, <2>4, Zenon DEF Ask, Send, Well, TypeOK
    <3> QED BY <1>1, <2>2, <3>1, SessionKept
  <2> QED BY <2>3, <2>4
<1>5. CASE Finish(d) \/ Leave(d)
  <2>1. PICK p \in {"fin", "reset"} : phase' = [phase EXCEPT ![d] = p]
    BY <1>5 DEF Finish, Leave
  <2>2. d # c /\ Open(c)
    BY <1>1, <2>1 DEF Open
  <2>3. asked' = asked /\ inbox' = inbox /\ rest' = rest
    BY <1>5 DEF Finish, Leave
  <2> QED BY <1>1, <1>2, <2>2, <2>3, SessionKept DEF Sessions
<1> QED
  BY <1>3, <1>4, <1>5 DEF ClientNext

----------------------------------------------------------------------------
(***************************************************************************)
(* Steps of the server, for the clients it does not serve.                 *)
(***************************************************************************)
LEMMA ServerApart == Well /\ Apart /\ ServerNext => Apart'
<1> SUFFICES ASSUME Well, Apart, ServerNext PROVE Apart'
  OBVIOUS
<1>1. /\ con \in Connection /\ con.sock \in Clients \cup {None} /\ None \notin Clients
      /\ phase \in [Clients -> {"idle", "open", "fin", "reset", "closed"}]
      /\ inbox \in [Clients -> Seq(Item)]
      /\ con.sock # None => phase[con.sock] # "idle"
  BY Fields, Zenon DEF Well, TypeOK, Apart, Queued
<1>2. CASE /\ UNCHANGED <<script, asked, rest, backlog, phase, inbox, out>>
           /\ con'.sock \in {con.sock, None}
  BY <1>1, <1>2, ApartKept
<1>3. CASE Kill
  BY <1>3, ApartClosed DEF Kill
<1>4. CASE Select \/ Continue \/ Serve \/ Parse \/ After \/ Accept
  <2>1. CASE Select
    BY <2>1, <1>2 DEF Select, client
  <2>2. CASE Continue
    <3>1. CASE MayKill(con.sock, <<"continue">>)
      BY <3>1, <1>3 DEF MayKill
    <3>2. CASE SendTo(con.sock, <<"continue">>) /\ UNCHANGED <<client, inbox, backlog, con, say, quit>>
      <4>1. con.sock \in Clients /\ <<"continue">> \in Seq(Text)
        <5>1. "continue" \in Text
          BY DEF Text
        <5> QED BY <2>2, <1>1, <5>1 DEF Continue, Well, Shape
      <4>2. \A d \in Clients : d # con.sock => out'[d] = out[d]
        BY <3>2, <4>1, Delivered, Zenon DEF Well
      <4> QED BY <1>1, <3>2, <4>2, ApartKept DEF client
    <3>3. CASE Die /\ UNCHANGED <<client, inbox, out, backlog>>
      <4>1. con'.sock = con.sock
        BY <3>3, <1>1, ZenonT(60) DEF Die, Connection
      <4> QED BY <3>3, <4>1, <1>2 DEF client
    <3> QED BY <2>2, <3>1, <3>2, <3>3 DEF Continue
  <2>3. CASE Serve
    <3>1. con'.sock = con.sock
      BY <2>3, <1>1, ZenonT(60) DEF Serve, SetBlocking, Connection
    <3> QED BY <2>3, <3>1, <1>2 DEF Serve, client
  <2>4. CASE Parse
    <3>1. con'.sock = con.sock
      BY <2>4, <1>1, ZenonT(60) DEF Parse, Setup, Die, Connection
    <3> QED BY <2>4, <3>1, <1>2 DEF Parse, client
  <2>5. CASE After
    <3>1. con'.sock = con.sock
      BY <2>5, <1>1, ZenonT(60) DEF After, SetNonblocking, Reset, Connection
    <3> QED BY <2>5, <3>1, <1>2 DEF After, client
  <2> QED BY <1>4, <2>1, <2>2, <2>3, <2>4, <2>5, AcceptApart
<1>5. CASE Recv
  <2>1. con'.sock = con.sock /\ con.sock \in Clients
    BY <1>1, <1>5 DEF Recv, Die, Connection, Well, Shape
  <2>2. \A d \in Clients : d # con.sock => inbox'[d] = inbox[d]
    BY <1>1, <1>5 DEF Recv
  <2> QED BY <1>1, <1>5, <2>1, <2>2, ApartKept DEF Recv, client
<1>6. CASE Discard
  <2>1. con'.sock = con.sock /\ con.sock \in Clients
    BY <1>1, <1>6, ZenonT(60) DEF Discard, ReadBuffered, Die, Connection, Well, Shape
  <2>2. \A d \in Clients : d # con.sock => inbox'[d] = inbox[d] /\ phase'[d] = phase[d]
    BY <1>1, <1>6 DEF Discard
  <2>3. phase'[con.sock] # "idle"
    BY <1>1, <1>6, <2>1 DEF Discard
  <2> QED BY <1>1, <1>6, <2>1, <2>2, <2>3, ApartKept DEF Discard
<1>7. CASE Respond
  <2> DEFINE item == Head(say)
             none == [io |-> con.io, sent |-> << >>]
             s == IF "chunked" \in con.flags THEN Push(Push(Push(none, <<"chunk">>), Units(item)), <<"crlf">>)
                  ELSE Push(none, Units(item))
  <2>1. con.sock \in Clients /\ say \in Seq(Text) /\ say # << >>
    BY <1>1, <1>7 DEF Respond, Well, Shape, TypeOK
  <2>2. item \in Text
    BY <2>1, FirstAndRest
  <2>3. s.sent \in Seq(Text)
    BY <2>2, Pushing DEF Well
  <2>4. CASE MayKill(con.sock, s.sent)
    BY <2>4, <1>3 DEF MayKill
  <2> HIDE DEF s
  <2>5. CASE SendTo(con.sock, s.sent) /\ UNCHANGED <<client, inbox, backlog>> /\ con'.sock = con.sock
    <3>1. \A d \in Clients : d # con.sock => out'[d] = out[d]
      BY <2>1, <2>3, <2>5, Delivered DEF Well
    <3> QED BY <1>1, <2>5, <3>1, ApartKept DEF client
  <2>6. \/ MayKill(con.sock, s.sent)
        \/ /\ SendTo(con.sock, s.sent) /\ UNCHANGED <<client, inbox, backlog>>
           /\ con'.sock = con.sock
    <3>1. CASE MayKill(con.sock, s.sent)
      BY <3>1
    <3> DEFINE f == con.flags \cup (IF item = "blank" /\ IsChunked(con.req)
                                   THEN {"chunked"} ELSE {})
    <3>2. CASE /\ SendTo(con.sock, s.sent) /\ UNCHANGED <<client, inbox, backlog>>
               /\ con' = [con EXCEPT !.io = s.io, !.flags = f]
      <4> HIDE DEF f
      <4> QED BY <1>1, <3>2 DEF Connection
    <3> QED BY <1>7, <3>1, <3>2 DEF Respond, s
  <2> QED BY <2>4, <2>5, <2>6
<1>8. CASE End
  <2> DEFINE none == [io |-> con.io, sent |-> << >>]
             s == IF "chunked" \in con.flags THEN Push(none, <<"last">>) ELSE none
             all == s.sent \o s.io
  <2>1. con.sock \in Clients
    BY <1>1, <1>8 DEF End, Well, Shape
  <2>2. s \in [io : Seq(Text), sent : Seq(Text)]
    <3>1. none \in [io : Seq(Text), sent : Seq(Text)]
      BY Fields, EmptySeq DEF Well
    <3>2. <<"last">> \in Seq(Text)
      BY DEF Text
    <3> HIDE DEF none
    <3> QED BY <3>1, <3>2, PushItem, Zenon
  <2> HIDE DEF s
  <2>3. all \in Seq(Text)
    BY <2>2, ConcatProperties
  <2> HIDE DEF all
  <2>4. CASE MayKill(con.sock, all)
    BY <2>4, <1>3 DEF MayKill
  <2>5. CASE /\ SendTo(con.sock, all) /\ UNCHANGED <<script, asked, rest, inbox, backlog>>
             /\ con'.sock \in {con.sock, None}
             /\ phase' = phase \/ phase' = [phase EXCEPT ![con.sock] = "closed"]
    <3>1. \A d \in Clients : d # con.sock => out'[d] = out[d] /\ phase'[d] = phase[d]
      BY <1>1, <2>1, <2>3, <2>5, Delivered DEF Well
    <3>2. phase'[con.sock] # "idle"
      BY <1>1, <2>1, <2>5
    <3> QED BY <1>1, <2>5, <3>1, <3>2, ApartKept
  <2>6. \/ MayKill(con.sock, all)
        \/ /\ SendTo(con.sock, all) /\ UNCHANGED <<script, asked, rest, inbox, backlog>>
           /\ con'.sock \in {con.sock, None}
           /\ phase' = phase \/ phase' = [phase EXCEPT ![con.sock] = "closed"]
    BY <1>1, <1>8, <2>1, ZenonT(60) DEF End, CloseCon, Closed, Connection, s, all
  <2> QED BY <2>4, <2>5, <2>6
<1>9. CASE Compact
  <2>1. con'.sock \in {con.sock, None}
    BY <1>9 DEF Compact, NoCon
  <2>2. CASE Stop
    BY <1>9, <2>1, <2>2, ApartClosed DEF Stop, Compact
  <2>3. CASE phase' = phase
    BY <1>2, <1>9, <2>1, <2>3 DEF Compact
  <2>4. CASE con.sock # None /\ phase' = [phase EXCEPT ![con.sock] = "closed"]
    <3>1. /\ \A d \in Clients : d # con.sock => phase'[d] = phase[d]
          /\ phase'[con.sock] # "idle"
      BY <1>1, <2>4
    <3> QED BY <1>9, <2>1, <3>1, ApartKept DEF Compact
  <2> QED BY <1>9, <2>2, <2>3, <2>4 DEF Compact, Closed
<1> QED
  BY <1>4, <1>5, <1>6, <1>7, <1>8, <1>9 DEF ServerNext

----------------------------------------------------------------------------
(***************************************************************************)
(* Steps of the server, for the client it serves: from the select to the   *)
(* request that was set up.                                                *)
(***************************************************************************)
LEMMA ReadingKept ==
  ASSUME NEW c, NEW k, Reading(c, k), script' = script, con'.flags = con.flags,
         con'.io = con.io, con'.head = con.head, asked'[c] = asked[c], inbox'[c] = inbox[c],
         rest'[c] = rest[c], out'[c] = out[c]
  PROVE  Reading(c, k)'
BY SameStream, ZenonT(60) DEF Reading, InFlight

\* What recv takes from the socket is the continuation of what it took.
LEMMA TakenFlight ==
  ASSUME Well, NEW c \in Clients, NEW k \in Nat \ {0}, NEW got \in Nat, InFlight(c, k, got),
         NEW n \in 1 .. Len(inbox[c]), script' = script, asked'[c] = asked[c],
         rest'[c] = rest[c], inbox'[c] = SubSeq(inbox[c], n + 1, Len(inbox[c]))
  PROVE  /\ InFlight(c, k, got + n)' /\ asked[c] >= k
         /\ \A i \in 1 .. n : got + i <= Len(Wire(script[c][k]))
                                => inbox[c][i] = Wire(script[c][k])[got + i]
<1> DEFINE W == Wire(script[c][k])
           x == inbox[c]
           y == inbox'[c]
<1>1. /\ x \in Seq(Item) /\ Len(x) \in Nat /\ n \in Nat /\ n >= 1 /\ n <= Len(x)
      /\ DOMAIN x = 1 .. Len(x)
  <2>1. x \in Seq(Item) /\ Len(x) \in Nat
    BY Fields DEF Well
  <2> QED BY <2>1, LenProperties
<1>2. /\ y \in Seq(Item) /\ Len(y) = Len(x) - n /\ \A i \in 1 .. Len(x) - n : y[i] = x[n + i]
  <2>1. n \in 0 .. Len(x)
    BY <1>1
  <2> QED BY <1>1, <2>1, CutInTwo
<1>3. DOMAIN y = 1 .. Len(x) - n
  BY <1>2, LenProperties
<1>4. x # << >>
  BY <1>1
<1>5. /\ asked[c] >= k
      /\ \/ asked[c] > k /\ Refused(script[c][k]) /\ got + Len(x) >= Len(W)
         \/ /\ asked[c] = k /\ got + Len(x) + Len(rest[c]) = Len(W)
            /\ \A i \in DOMAIN rest[c] : rest[c][i] = W[got + Len(x) + i]
      /\ \A i \in DOMAIN x : got + i <= Len(W) => x[i] = W[got + i]
  BY <1>4, Zenon DEF InFlight
<1>6. \A i \in DOMAIN y : (got + n) + i <= Len(W) => y[i] = W[(got + n) + i]
  <2> SUFFICES ASSUME NEW i \in 1 .. Len(x) - n, (got + n) + i <= Len(W)
               PROVE  y[i] = W[(got + n) + i]
    BY <1>3, Zenon
  <2>1. n + i \in DOMAIN x /\ got + (n + i) = (got + n) + i
    BY <1>1
  <2> QED BY <1>2, <1>5, <2>1, Zenon
<1>7. Wire(script[c][k])' = W /\ Refused(script[c][k])' = Refused(script[c][k])
  OBVIOUS
<1>8. (got + n) + Len(y) = got + Len(x)
  <2> DEFINE a == Len(x)
             b == Len(y)
  <2>1. a \in Nat /\ n \in Nat /\ b = a - n
    BY <1>1, <1>2
  <2> HIDE DEF a, b, x, y
  <2>2. (got + n) + b = got + a
    BY <2>1
  <2> QED BY <2>2 DEF a, b
<1>9. InFlight(c, k, got + n)'
  <2> HIDE DEF W, y, x
  <2> USE DEF x, y
  <2> QED BY <1>5, <1>6, <1>7, <1>8, Zenon DEF InFlight, W
<1>10. \A i \in 1 .. n : i \in DOMAIN x
  BY <1>1
<1> QED
  BY <1>5, <1>9, <1>10

LEMMA SelectSession == Well /\ Sessions /\ Select => Sessions'
<1> SUFFICES ASSUME Well, Sessions, Select, NEW c \in Clients, c = con'.sock, phase'[c] = "open"
             PROVE  \E k \in Nat \ {0} : Session(c, k)'
  BY DEF Sessions, Open
<1>1. UNCHANGED <<client, inbox, out, con>> /\ pc = "select" /\ c = con.sock /\ Open(c)
  BY DEF Select, client, Open
<1>2. PICK k \in Nat \ {0} : Session(c, k)
  BY <1>1 DEF Sessions
<1>3. pc' = "recv"
  BY <1>1, WebAssumption DEF Select, Goto, Well, Shape
<1>4. Reading(c, k)'
  BY <1>1, <1>2, ReadingKept DEF Session, client
<1>5. Begun(c, k)'
  BY <1>1, <1>2, SameStream DEF Session, client
<1> QED
  BY <1>3, <1>4, <1>5 DEF Session

LEMMA AcceptSession == Well /\ Apart /\ Accept => Sessions'
<1> SUFFICES ASSUME Well, Apart, Accept, NEW c \in Clients, c = con'.sock, phase'[c] = "open"
             PROVE  \E k \in Nat \ {0} : Session(c, k)'
  BY DEF Sessions, Open
<1>1. /\ con'.sock = Head(backlog) /\ con'.flags = {"alive"} /\ con'.head = << >>
      /\ con'.io = << >> /\ pc' = "recv" /\ backlog \in Seq(Clients) /\ backlog # << >>
      /\ UNCHANGED <<script, asked, rest, phase, inbox, out>>
  BY DEF Accept, NoCon, Goto, client, Well, TypeOK, Shape
<1>2. c = backlog[1] /\ 1 \in DOMAIN backlog
  BY <1>1, FirstAndRest, LenProperties
<1>3. out[c] = << >> /\ InFlight(c, 1, 0)
  BY <1>1, <1>2 DEF Apart, Queued, InBacklog, Waiting, Open
<1>4. Len(con'.head) = 0
  BY <1>1
<1>5. InFlight(c, 1, Len(con.head))'
  <2>1. PICK g \in Nat : g = 0
    OBVIOUS
  <2>2. InFlight(c, 1, g)'
    BY <1>1, <1>3, <2>1, SameFlight
  <2>3. Len(con'.head) = g
    BY <1>4, <2>1
  <2> QED BY <2>2, <2>3, Zenon DEF InFlight
<1>6. Stream(c, 1 - 1) = << >>
  BY StreamStep DEF Well, TypeOK
<1>7. Reading(c, 1)'
  <2>1. DOMAIN con'.head = {}
    BY <1>1
  <2>2. Stream(c, 1 - 1)' = << >>
    BY <1>1, <1>6, SameStream
  <2>3. Len(out'[c]) = Len(Stream(c, 1 - 1)')
    BY <1>1, <1>3, <2>2
  <2> QED BY <1>1, <1>5, <2>1, <2>3 DEF Reading
<1>8. Begun(c, 1)'
  BY DEF Begun
<1>9. Session(c, 1)'
  BY <1>1, <1>7, <1>8 DEF Session
<1> QED
  BY <1>9

LEMMA RecvSession == Well /\ Sessions /\ Recv => Sessions'
<1> SUFFICES ASSUME Well, Sessions, Recv, NEW c \in Clients, c = con'.sock, phase'[c] = "open"
             PROVE  \E k \in Nat \ {0} : Session(c, k)'
  BY DEF Sessions, Open
<1>1. /\ UNCHANGED <<script, asked, rest, phase, out>> /\ pc = "recv" /\ con \in Connection
      /\ inbox \in [Clients -> Seq(Item)]
  BY DEF Recv, client, Well, TypeOK
<1>2. c = con.sock /\ Open(c)
  BY <1>1 DEF Recv, Die, Connection, Open
<1>3. PICK k \in Nat \ {0} : Session(c, k)
  BY <1>2 DEF Sessions
<1>4. Reading(c, k) /\ Begun(c, k)'
  BY <1>1, <1>3, SameStream DEF Session
<1>5. PICK n : n = Min({HeadMax - Len(con.head), Len(inbox[c])})
  OBVIOUS
<1>9. n \in Nat /\ n \in 0 .. Len(inbox[c]) /\ con.head \in Seq(Item) /\ inbox[c] \in Seq(Item)
  BY <1>1, <1>2, <1>5, RecvTakes, Zenon
<1>6. CASE /\ n > 0 /\ con' = [con EXCEPT !.head = con.head \o SubSeq(inbox[c], 1, n)]
           /\ inbox' = [inbox EXCEPT ![c] = SubSeq(inbox[c], n + 1, Len(inbox[c]))]
           /\ UNCHANGED pc
  <2> DEFINE new == SubSeq(inbox[c], 1, n)
             W == Wire(script[c][k])
  <2>1. PICK g \in Nat : g = Len(con.head)
    BY Fields DEF Well
  <2>2. InFlight(c, k, g)
    BY <1>4, <2>1, Zenon DEF Reading, InFlight
  <2>3. n \in 1 .. Len(inbox[c])
    BY <1>6, <1>9
  <2>4. inbox'[c] = SubSeq(inbox[c], n + 1, Len(inbox[c]))
    BY <1>1, <1>6, Zenon
  <2>5. /\ InFlight(c, k, g + n)'
        /\ \A i \in 1 .. n : g + i <= Len(W) => inbox[c][i] = W[g + i]
    BY <1>1, <2>2, <2>3, <2>4, TakenFlight, ZenonT(60)
  <2>6. new \in Seq(Item) /\ Len(new) = n /\ \A i \in 1 .. n : new[i] = inbox[c][i]
    BY <1>9, CutInTwo
  <2> HIDE DEF new, W
  <2>7. con'.head = con.head \o new /\ con'.flags = con.flags /\ con'.io = con.io
    BY <1>1, <1>6, Zenon DEF Connection, new
  <2>8. /\ Len(con.head \o new) = g + n /\ con.head \o new \in Seq(Item)
        /\ \A i \in 1 .. g : (con.head \o new)[i] = con.head[i]
        /\ \A i \in 1 .. n : (con.head \o new)[g + i] = new[i]
    <3> DEFINE h == con.head
    <3>1. h \in Seq(Item) /\ Len(h) = g
      BY <1>9, <2>1
    <3> HIDE DEF h
    <3>2. /\ Len(h \o new) = Len(h) + Len(new) /\ h \o new \in Seq(Item)
          /\ \A i \in 1 .. Len(h) : (h \o new)[i] = h[i]
          /\ \A i \in 1 .. Len(new) : (h \o new)[Len(h) + i] = new[i]
      <4>1. h \in Seq(Item) /\ new \in Seq(Item)
        BY <2>6, <3>1
      <4> QED BY <4>1, Concatenated
    <3>3. /\ Len(h \o new) = g + n /\ h \o new \in Seq(Item)
          /\ \A i \in 1 .. g : (h \o new)[i] = h[i]
          /\ \A i \in 1 .. n : (h \o new)[g + i] = new[i]
      BY <2>6, <3>1, <3>2
    <3> QED BY <3>3, Zenon DEF h
  <2>9. InFlight(c, k, Len(con.head))'
    BY <2>5, <2>7, <2>8 DEF InFlight
  <2>10. \A i \in DOMAIN (con.head \o new) : i <= Len(W) => (con.head \o new)[i] = W[i]
    <3> SUFFICES ASSUME NEW i \in 1 .. g + n, i <= Len(W)
                 PROVE  (con.head \o new)[i] = W[i]
      BY <2>8, LenProperties
    <3>1. CASE i <= g
      <4>1. i \in DOMAIN con.head /\ i \in 1 .. g
        BY <1>9, <2>1, <3>1, LenProperties
      <4> QED BY <1>4, <2>8, <4>1, Zenon DEF Reading, W
    <3>2. CASE i > g
      <4>1. i - g \in 1 .. n /\ g + (i - g) = i
        BY <1>9, <2>1, <3>2
      <4>2. PICK j \in 1 .. n : g + j = i
        BY <4>1
      <4>3. (con.head \o new)[g + j] = new[j] /\ new[j] = inbox[c][j] /\ inbox[c][j] = W[g + j]
        BY <2>5, <2>6, <2>8, <4>2, Zenon DEF W
      <4> QED BY <4>2, <4>3, Zenon
    <3>3. i <= g \/ i > g
      BY <1>9
    <3> QED BY <3>1, <3>2, <3>3, Zenon
  <2>11. Reading(c, k)'
    BY <1>1, <1>4, <2>7, <2>9, <2>10, SameStream DEF Reading, W
  <2> QED BY <1>1, <1>4, <1>6, <2>11 DEF Session
<1>7. CASE UNCHANGED <<con, inbox>> /\ Goto("parse")
  <2>1. Reading(c, k)'
    BY <1>1, <1>4, <1>7, ReadingKept
  <2> QED BY <1>4, <1>7, <2>1 DEF Session, Goto
<1>8. phase[c] = "open"
  BY <1>2 DEF Open
<1> QED
  BY <1>2, <1>5, <1>6, <1>7, <1>8, Zenon DEF Recv

\* What the parser makes of header_buf is the request the client sent, and
\* what is behind it belongs to its body: the client sends nothing further
\* before it is answered.
LEMMA HeadParsed ==
  ASSUME Well, pc = "parse", NEW c \in Clients, c = con.sock, NEW k \in Nat \ {0}, Reading(c, k),
         NEW at, at = Min(PeekRequest(con.head)), PeekRequest(con.head) # {}, con.head[at].valid
  PROVE  /\ k \in DOMAIN script[c] /\ ~ Refused(script[c][k]) /\ con.head[at] = script[c][k]
         /\ asked[c] = k
         /\ (Len(con.head) - at) + Len(inbox[c]) + Len(rest[c]) = script[c][k].body
<1> DEFINE r == script[c][k]
           W == Wire(r)
           h == con.head
           g == Len(con.head)
<1>1. /\ at \in 1 .. g /\ h[at].kind = "end" /\ g \in Nat /\ h \in Seq(Item)
      /\ \A i \in 1 .. g : h[i].kind = "end" => at <= i
  BY ParseFinds, Fields DEF Well
<1>2. \A i \in 1 .. g : i <= Len(W) => h[i] = W[i]
  BY <1>1, LenProperties DEF Reading
<1>3. g # 0 /\ InFlight(c, k, g)
  BY <1>1 DEF Reading
<1>4. /\ asked[c] >= k
      /\ \/ asked[c] > k /\ Refused(r)
         \/ asked[c] = k /\ g + Len(inbox[c]) + Len(rest[c]) = Len(W)
  BY <1>3, Zenon DEF InFlight
<1>5. k \in DOMAIN script[c] /\ r \in Request
  <2>1. asked[c] <= Len(script[c]) /\ Len(script[c]) \in Nat /\ script[c] \in Seq(Request)
        /\ asked[c] \in Nat
    BY Fields DEF Well, Shape
  <2>2. k \in 1 .. Len(script[c])
    BY <1>4, <2>1
  <2> QED BY <2>1, <2>2, LenProperties, ElementOfSeq
<1>6. /\ Len(W) = r.lines + 1 + r.body /\ r.lines \in Nat /\ r.body \in Nat
      /\ \A i \in 1 .. r.lines : W[i] = Line
      /\ W[r.lines + 1] = r /\ r.kind = "end"
  BY <1>5, WireItems, Zenon DEF Request
<1>7. Len(h) <= HeadMax /\ HeadMax \in Nat
  BY WebAssumption DEF Well, Shape
<1> DEFINE l == r.lines
           b == r.body
           w == Len(W)
<1>8. /\ l \in Nat /\ b \in Nat /\ w = l + 1 + b
      /\ \A i \in 1 .. l : W[i] = Line
      /\ W[l + 1] = r /\ r.kind = "end"
      /\ \A i \in 1 .. g : i <= w => h[i] = W[i]
  BY <1>2, <1>6
<1> HIDE DEF r, W, h, g, l, b, w
<1>9. at >= l + 1
  <2> SUFFICES ASSUME at <= l PROVE FALSE
    BY <1>1, <1>8
  <2>1. at \in 1 .. l /\ at <= w
    BY <1>1, <1>8
  <2>2. h[at] = Line
    BY <1>1, <1>8, <2>1
  <2> QED BY <1>1, <2>2 DEF Line
<1>10. at = l + 1
  <2>1. l + 1 \in 1 .. g /\ l + 1 <= w
    BY <1>1, <1>8, <1>9
  <2>2. h[l + 1] = r
    BY <1>8, <2>1
  <2>3. at <= l + 1
    BY <1>1, <1>8, <2>1, <2>2
  <2> QED BY <1>1, <1>8, <1>9, <2>3
<1>11. h[at] = r
  BY <1>1, <1>8, <1>9, <1>10
<1>12. ~ Refused(r)
  <2>1. g <= HeadMax
    BY <1>7 DEF g, h
  <2>2. l < HeadMax
    BY <1>1, <1>7, <1>8, <1>10, <2>1
  <2>3. r.valid
    BY <1>11 DEF h
  <2> QED BY <2>2, <2>3, <1>7, <1>8 DEF Refused, l
<1>13. asked[c] = k /\ g + Len(inbox[c]) + Len(rest[c]) = w
  BY <1>4, <1>12 DEF w
<1>14. (g - at) + Len(inbox[c]) + Len(rest[c]) = b
  <2> DEFINE i == Len(inbox[c])
             t == Len(rest[c])
  <2>1. i \in Nat /\ t \in Nat
    BY Fields DEF Well
  <2>2. g + i + t = w /\ w = l + 1 + b /\ at = l + 1 /\ g \in Nat /\ l \in Nat /\ b \in Nat
    BY <1>1, <1>8, <1>10, <1>13, Zenon
  <2> HIDE DEF i, t
  <2>4. g + i + t = l + 1 + b /\ at = l + 1
    BY <2>2
  <2>5. (g - (l + 1)) + i + t = b
    <3>1. /\ i \in Nat /\ t \in Nat /\ g \in Nat /\ l \in Nat /\ b \in Nat
          /\ g + i + t = l + 1 + b
      BY <2>1, <2>2, <2>4
    <3> QED BY <3>1
  <2>3. (g - at) + i + t = b
    BY <2>4, <2>5
  <2> QED BY <2>3 DEF i, t
<1> QED
  BY <1>5, <1>11, <1>12, <1>13, <1>14 DEF r, h, g, b

LEMMA ParseSession == Well /\ Sessions /\ Parse => Sessions'
<1> SUFFICES ASSUME Well, Sessions, Parse, NEW c \in Clients, c = con'.sock, phase'[c] = "open"
             PROVE  \E k \in Nat \ {0} : Session(c, k)'
  BY DEF Sessions, Open
<1>1. /\ UNCHANGED <<script, asked, rest, phase, inbox, out>> /\ pc = "parse"
      /\ con \in Connection
  BY DEF Parse, client, Well, TypeOK
<1>2. c = con.sock /\ Open(c)
  BY <1>1, Zenon DEF Parse, Die, Setup, Connection, Open
<1>3. PICK k \in Nat \ {0} : Session(c, k)
  BY <1>2 DEF Sessions
<1>4. Reading(c, k) /\ Begun(c, k)'
  BY <1>1, <1>3, SameStream DEF Session
<1>5. PICK at : at = Min(PeekRequest(con.head))
  OBVIOUS
<1>6. CASE Die /\ Goto("compact")
  <2>1. ~ Alive' /\ pc' = "compact"
    BY <1>1, <1>6 DEF Die, Alive, Connection, Goto
  <2> QED BY <1>4, <2>1 DEF Session
<1>7. CASE UNCHANGED con /\ Goto("compact")
  <2>1. Reading(c, k)' /\ pc' = "compact"
    BY <1>1, <1>4, <1>7, ReadingKept DEF Goto
  <2> QED BY <1>4, <2>1 DEF Session
<1>8. CASE /\ PeekRequest(con.head) # {} /\ con.head[at].valid
           /\ con' = Setup(con.head[at], at)
           /\ Goto(IF con.head[at].expect THEN "continue" ELSE "serve")
  <2> DEFINE r == con.head[at]
             l == Len(con.head) - at
  <2>1. /\ k \in DOMAIN script[c] /\ ~ Refused(script[c][k]) /\ r = script[c][k]
        /\ asked[c] = k /\ l + Len(inbox[c]) + Len(rest[c]) = script[c][k].body
    BY <1>1, <1>2, <1>4, <1>5, <1>8, HeadParsed
  <2>2. con.read = 0 /\ l \in Nat
    BY <1>1, <1>5, <1>8, ParseFinds, Fields DEF Well, Shape
  <2> HIDE DEF l, r
  <2>3. con' = [con EXCEPT !.req = r, !.left = l]
    BY <1>8 DEF Setup, l, r
  <2>4. /\ con'.req = r /\ con'.left = l /\ con'.read = 0 /\ con'.flags = con.flags
        /\ con'.io = con.io
    BY <1>1, <2>2, <2>3 DEF Connection
  <2>5. pc' = (IF r.expect THEN "continue" ELSE "serve")
    BY <1>8 DEF Goto, r
  <2>6. Serving(c, k)'
    BY <1>1, <2>1, <2>4 DEF Serving
  <2>7. con'.left + con'.read + Len(inbox'[c]) + Len(rest'[c]) = con'.req.body
    <3>1. l + 0 = l
      BY <2>2
    <3> QED BY <1>1, <2>1, <2>4, <3>1
  <2>8. Len(out'[c]) = Len(Stream(c, k - 1))'
                       + (IF pc' = "continue" THEN 0 ELSE Continued(con'.req))
    <3>1. (IF pc' = "continue" THEN 0 ELSE Continued(con'.req)) = 0
      BY <2>4, <2>5 DEF Continued
    <3>2. Len(out'[c]) = Len(Stream(c, k - 1)') /\ Len(out[c]) \in Nat
      BY <1>1, <1>4, SameStream, Fields DEF Reading, Well
    <3> QED BY <1>1, <3>1, <3>2
  <2>9. InBody(c, k)'
    BY <1>1, <1>4, <2>1, <2>4, <2>5, <2>6, <2>7, <2>8 DEF InBody, Reading
  <2> QED BY <1>4, <2>5, <2>9 DEF Session
<1> QED
  BY <1>5, <1>6, <1>7, <1>8 DEF Parse

LEMMA ContinueSession == Well /\ Sessions /\ Continue => Sessions'
<1> SUFFICES ASSUME Well, Sessions, Continue, NEW c \in Clients, c = con'.sock, phase'[c] = "open"
             PROVE  \E k \in Nat \ {0} : Session(c, k)'
  BY DEF Sessions, Open
<1>1. ~ Kill
  BY DEF Kill
<1>12. ~ (phase[con.sock] = "reset" /\ Die /\ UNCHANGED phase)
  <2>1. Die => con'.sock = con.sock
    BY DEF Die, Well, TypeOK, Connection
  <2> QED BY <2>1
<1>2. /\ SendTo(con.sock, <<"continue">>) /\ pc = "continue" /\ pc' = "serve"
      /\ UNCHANGED <<script, phase, asked, rest, inbox, con>>
  BY <1>1, <1>12 DEF Continue, MayKill, client, Goto
<1>3. c = con.sock /\ Open(c)
  BY <1>2 DEF Open
<1>4. PICK k \in Nat \ {0} : Session(c, k)
  BY <1>3 DEF Sessions
<1>5. InBody(c, k) /\ Begun(c, k)'
  BY <1>2, <1>4, SameStream DEF Session
<1>6. out'[c] = out[c] \o <<"continue">> /\ out[c] \in Seq(Text)
  <2>1. <<"continue">> \in Seq(Text)
    BY DEF Text
  <2> QED BY <1>2, <1>3, <2>1, Delivered, Fields, ZenonT(60) DEF Well
<1>7. Len(out'[c]) = Len(out[c]) + 1 /\ Len(out[c]) \in Nat
  BY <1>6, Concatenated
<1>8. con.req.expect /\ Len(out[c]) = Len(Stream(c, k - 1)) + 0
  BY <1>2, <1>5 DEF InBody
<1>9. Len(Stream(c, k - 1)) \in Nat
  BY <1>3, StreamGrows DEF Well, TypeOK
<1>10. Len(out'[c]) = Len(Stream(c, k - 1)') + Continued(con'.req)
  BY <1>2, <1>7, <1>8, <1>9, SameStream DEF Continued
<1>11. InBody(c, k)'
  BY <1>2, <1>5, <1>10 DEF InBody, Serving
<1> QED
  BY <1>2, <1>5, <1>11 DEF Session

LEMMA ServeSession == Well /\ Sessions /\ Serve => Sessions'
<1> SUFFICES ASSUME Well, Sessions, Serve, NEW c \in Clients, c = con'.sock, phase'[c] = "open"
             PROVE  \E k \in Nat \ {0} : Session(c, k)'
  BY DEF Sessions, Open
<1>1. /\ UNCHANGED <<script, phase, asked, rest, inbox, out>> /\ pc = "serve"
      /\ con \in Connection /\ None \notin Clients
  BY Fields DEF Serve, client, Well, TypeOK
<1>2. c = con.sock /\ Open(c)
  BY <1>1, ZenonT(60) DEF Serve, SetBlocking, Connection, Open
<1>3. con' = SetBlocking([con EXCEPT !.io = << >>]) /\ pc' = "discard"
  BY <1>1, <1>2 DEF Serve, Goto
<1>4. /\ con'.flags = con.flags /\ con'.io = << >> /\ con'.left = con.left
      /\ con'.read = con.read /\ con'.req = con.req
  BY <1>1, <1>3 DEF SetBlocking, Connection
<1>5. PICK k \in Nat \ {0} : Session(c, k)
  BY <1>2 DEF Sessions
<1>6. InBody(c, k) /\ Begun(c, k)'
  BY <1>1, <1>5, SameStream DEF Session
<1>7. InBody(c, k)'
  BY <1>1, <1>3, <1>4, <1>6, SameStream, SMTT(30) DEF InBody, Serving
<1> QED
  BY <1>3, <1>6, <1>7 DEF Session

----------------------------------------------------------------------------
(***************************************************************************)
(* The body, and the way back to the select. When the body has been read   *)
(* nothing of this client is under way: what the server reads next is the  *)
(* next head.                                                              *)
(***************************************************************************)
LEMMA BodyRead ==
  ASSUME Well, AnswersWhole, NEW c \in Clients, c = con.sock, NEW k \in Nat \ {0}, Begun(c, k),
         InBody(c, k), pc = "discard", con.req.body - con.read = 0, say' = Printed(con.req),
         UNCHANGED <<script, phase, asked, rest, inbox, out>>,
         con' = [con EXCEPT !.flags = con.flags \cup (IF con.req.close THEN {"close"} ELSE {})]
  PROVE  Responding(c, k)'
<1> DEFINE r == con.req
           h == Len(Lines(r))
           b == Len(Stream(c, k - 1))
<1>1. /\ con \in Connection /\ Serving(c, k) /\ r = script[c][k] /\ asked[c] = k
      /\ con.flags = {"alive"} /\ con.io = << >>
  BY DEF InBody, Serving, Well, TypeOK
<1>2. /\ r \in Request /\ b \in Nat
  BY <1>1, StreamServes DEF Serving, Well, TypeOK
<1>3. /\ con'.io = << >> /\ con'.req = r /\ con'.sock = c
      /\ con'.flags = {"alive"} \cup (IF r.close THEN {"close"} ELSE {})
  BY <1>1 DEF Connection
<1>4. Len(inbox[c]) = 0 /\ Len(rest[c]) = 0
  <2> DEFINE left == con.left
             read == con.read
             body == con.req.body
             i == Len(inbox[c])
             t == Len(rest[c])
  <2>1. left \in Nat /\ read \in Nat /\ body \in Nat /\ i \in Nat /\ t \in Nat
    BY Fields DEF Well
  <2>2. left + read + i + t = body /\ body - read = 0
    BY DEF InBody
  <2> HIDE DEF left, read, body, i, t
  <2>3. i = 0 /\ t = 0
    BY <2>1, <2>2
  <2> QED BY <2>3 DEF i, t
<1>5. inbox[c] = << >> /\ rest[c] = << >>
  BY <1>4, Fields, EmptySeq DEF Well
<1>6. Following(c, k)'
  <2>1. InFlight(c, k + 1, 0)'
    <3>1. asked'[c] = (k + 1) - 1
      BY <1>1
    <3> QED BY <1>5, <3>1 DEF InFlight
  <2> QED BY <2>1 DEF Following
<1>7. Serving(c, k)' /\ asked'[c] >= k
  BY <1>1, <1>3 DEF Serving
<1>8. IsPrefix(out'[c] \o con'.io, Stream(c, Len(script[c]))')
  <2>1. out[c] \in Seq(Text)
    BY Fields DEF Well
  <2>2. out[c] \o << >> = out[c]
    BY <2>1, ConcatEmptySeq
  <2>3. out'[c] \o con'.io = out[c]
    BY <1>3, <2>2, Zenon
  <2>4. IsPrefix(out[c], Stream(c, Len(script[c])))
    BY DEF AnswersWhole
  <2> QED BY <2>3, <2>4, SameStream, Zenon
<1>9. /\ h \in Nat /\ Len(Printed(r)) = h + 2 /\ DOMAIN Printed(r) = 1 .. h + 2
      /\ Continued(r) \in {0, 1}
  BY <1>2, PrintedItems, HeaderText, LenProperties DEF Continued
<1>10. Sent(r, 0) = Continued(r)
  BY <1>9 DEF Sent
<1>11. Len(out'[c]) + Len(con'.io) = b + Sent(r, 0)
  <2>1. Len(out[c]) = b + Continued(r) /\ Len(out[c]) \in Nat /\ Len(<< >>) = 0
    BY Fields DEF InBody, Well
  <2>2. Len(out'[c]) = b + Continued(r) /\ Len(con'.io) = 0
    BY <1>3, <2>1
  <2> HIDE DEF b, r
  <2> QED BY <1>2, <1>9, <1>10, <2>2
<1>12. \E p \in 0 .. Len(Lines(con'.req)) + 2 :
         /\ Len(say') = Len(Lines(con'.req)) + 2 - p
         /\ \A i \in DOMAIN say' : say'[i] = Printed(con'.req)[p + i]
         /\ "chunked" \in con'.flags <=> p > Len(Lines(con'.req)) /\ IsChunked(con'.req)
         /\ Len(out'[c]) + Len(con'.io) = Len(Stream(c, k - 1)') + Sent(con'.req, p)
  <2>1. 0 \in 0 .. h + 2 /\ ~ (0 > h) /\ h + 2 - 0 = h + 2
    BY <1>9
  <2>2. \A i \in DOMAIN say' : say'[i] = Printed(r)[0 + i]
    <3>1. \A i \in 1 .. h + 2 : 0 + i = i
      BY <1>9
    <3> QED BY <1>9, <3>1
  <2>3. "chunked" \notin con'.flags
    BY <1>3
  <2>4. Stream(c, k - 1)' = Stream(c, k - 1)
    BY SameStream
  <2> WITNESS 0 \in 0 .. Len(Lines(con'.req)) + 2
  <2> QED BY <1>3, <1>9, <1>11, <2>1, <2>2, <2>3, <2>4, ZenonT(60)
<1>13. "alive" \in con'.flags /\ ("close" \in con'.flags <=> con'.req.close)
  BY <1>3
<1> QED
  BY <1>6, <1>7, <1>8, <1>12, <1>13, Zenon DEF Responding

LEMMA DiscardSession == Well /\ AnswersWhole /\ Sessions /\ Discard => Sessions'
<1> SUFFICES ASSUME Well, AnswersWhole, Sessions, Discard, NEW c \in Clients, c = con'.sock,
                    phase'[c] = "open"
             PROVE  \E k \in Nat \ {0} : Session(c, k)'
  BY DEF Sessions, Open
<1>1. /\ UNCHANGED <<script, asked, rest, out>> /\ pc = "discard" /\ con \in Connection
      /\ phase \in [Clients -> {"idle", "open", "fin", "reset", "closed"}]
      /\ inbox \in [Clients -> Seq(Item)]
  BY DEF Discard, Well, TypeOK
<1>2. c = con.sock
  BY <1>1, ZenonT(60) DEF Discard, ReadBuffered, Die, Connection
<1>3. phase' = phase /\ Open(c)
  BY <1>1, <1>2 DEF Discard, Open
<1>4. PICK k \in Nat \ {0} : Session(c, k)
  BY <1>2, <1>3 DEF Sessions
<1>5. InBody(c, k) /\ Begun(c, k) /\ Begun(c, k)'
  BY <1>1, <1>4, SameStream DEF Session
<1> DEFINE left == con.left
           read == con.read
           body == con.req.body
           need == body - read
           i == Len(inbox[c])
           t == Len(rest[c])
<1>6. left \in Nat /\ read \in Nat /\ body \in Nat /\ i \in Nat /\ t \in Nat
  BY Fields DEF Well
<1>7. left + read + i + t = body
  BY <1>5 DEF InBody
<1>8. CASE need > 0 /\ con' = ReadBuffered(con, need) /\ UNCHANGED <<inbox, pc>>
  <2> HIDE DEF left, read, body, need, i, t
  <2>1. need \in Nat
    BY <1>6, <1>8 DEF need
  <2>2. PICK n \in Nat : n = Min({need, left}) /\ left - n \in Nat
    BY <1>6, <2>1, MinBounds
  <2>3. con' = [con EXCEPT !.left = left - n, !.read = read + n]
    BY <1>8, <2>2 DEF ReadBuffered, left, read
  <2>4. /\ con'.left = left - n /\ con'.read = read + n /\ con'.req = con.req
        /\ con'.flags = con.flags /\ con'.io = con.io
    BY <1>1, <2>3 DEF Connection
  <2>5. (left - n) + (read + n) + i + t = body
    <3>1. n \in Nat
      OBVIOUS
    <3> QED BY <1>6, <1>7, <3>1
  <2>6. InBody(c, k)'
    BY <1>1, <1>5, <1>8, <2>4, <2>5, SameStream DEF InBody, Serving, i, t, body
  <2> QED BY <1>1, <1>5, <1>8, <2>6 DEF Session
<1>9. ASSUME NEW n, n = Min({need, i}), need > 0, con' = [con EXCEPT !.read = read + n],
             inbox' = [inbox EXCEPT ![c] = SubSeq(inbox[c], n + 1, Len(inbox[c]))], pc' = pc
      PROVE  Session(c, k)'
  <2> HIDE DEF left, read, body, need, i, t
  <2>1. need \in Nat
    BY <1>6, <1>9 DEF need
  <2>2. n \in Nat /\ n \in 0 .. i
    BY <1>6, <1>9, <2>1, MinBounds, Zenon
  <2>3. inbox'[c] = SubSeq(inbox[c], n + 1, Len(inbox[c])) /\ inbox[c] \in Seq(Item)
    BY <1>1, <1>9, Zenon
  <2>4. Len(inbox'[c]) = i - n
    BY <2>2, <2>3, CutInTwo DEF i
  <2>5. /\ con'.left = left /\ con'.read = read + n /\ con'.req = con.req
        /\ con'.flags = con.flags /\ con'.io = con.io
    BY <1>1, <1>9 DEF Connection, left
  <2>6. left + (read + n) + (i - n) + t = body
    BY <1>6, <1>7, <2>2
  <2>7. con'.left + con'.read + Len(inbox'[c]) + Len(rest'[c]) = con'.req.body
    BY <1>1, <2>4, <2>5, <2>6 DEF t, body
  <2>8. InBody(c, k)'
    <3>1. Serving(c, k)'
      BY <1>1, <1>5, <2>5 DEF InBody, Serving
    <3>2. Stream(c, k - 1)' = Stream(c, k - 1)
      BY <1>1, SameStream
    <3> QED BY <1>1, <1>5, <1>9, <2>5, <2>7, <3>1, <3>2, Zenon DEF InBody
  <2> QED BY <1>1, <1>5, <1>9, <2>8 DEF Session
<1>10. CASE /\ need = 0 /\ say' = Printed(con.req) /\ Goto("respond")
            /\ con' = [con EXCEPT !.flags = con.flags
                                             \cup (IF con.req.close THEN {"close"} ELSE {})]
            /\ UNCHANGED <<phase, inbox>>
  <2>1. Responding(c, k)'
    BY <1>1, <1>2, <1>5, <1>10, BodyRead, Zenon
  <2> QED BY <1>5, <1>10, <2>1 DEF Session, Goto
<1> HIDE DEF left
<1>11. CASE /\ need > 0 /\ left = 0 /\ Min({need, i}) > 0
            /\ con' = [con EXCEPT !.read = read + Min({need, i})]
            /\ inbox' = [inbox EXCEPT ![c] = SubSeq(inbox[c], Min({need, i}) + 1, Len(inbox[c]))]
            /\ UNCHANGED <<phase, pc, say>>
  BY <1>9, <1>11, Zenon
<1> QED
  BY <1>1, <1>2, <1>3, <1>8, <1>10, <1>11, Zenon DEF Discard, Open, left

LEMMA AfterSession == Well /\ Sessions /\ After => Sessions'
<1> SUFFICES ASSUME Well, Sessions, After, NEW c \in Clients, c = con'.sock, phase'[c] = "open"
             PROVE  \E k \in Nat \ {0} : Session(c, k)'
  BY DEF Sessions, Open
<1>1. /\ UNCHANGED <<script, asked, rest, phase, inbox, out>> /\ pc = "after"
      /\ con \in Connection
  BY DEF After, client, Well, TypeOK
<1>2. c = con.sock /\ Open(c)
  BY <1>1, Zenon DEF After, SetNonblocking, Reset, Connection, Open
<1>3. PICK k \in Nat \ {0} : Session(c, k)
  BY <1>2 DEF Sessions
<1>4. Answered(c, k) /\ Begun(c, k) /\ Begun(c, k)'
  BY <1>1, <1>3, SameStream DEF Session
<1>5. Alive
  BY <1>4 DEF Answered, Alive
<1>6. CASE "close" \in con.flags
  <2>1. con' = [SetNonblocking(con) EXCEPT !.flags = SetNonblocking(con).flags \ {"alive"}]
        /\ pc' = "compact"
    BY <1>5, <1>6 DEF After, Goto
  <2>2. ~ Alive'
    BY <1>1, <2>1 DEF SetNonblocking, Connection, Alive
  <2> QED BY <1>4, <2>1, <2>2 DEF Session
<1>7. CASE "close" \notin con.flags
  <2>1. con' = Reset(SetNonblocking(con)) /\ pc' = "recv"
    BY <1>5, <1>7 DEF After, Goto
  <2>2. con'.flags = con.flags /\ con'.io = << >> /\ con'.head = << >>
    BY <1>1, <2>1 DEF Reset, SetNonblocking, Connection
  <2>3. con.flags = {"alive"} /\ ~ con.req.close
    BY <1>4, <1>7 DEF Answered
  <2>4. ~ IsLast(c, k) /\ k \in DOMAIN script[c]
    BY <1>4, <2>3 DEF Answered, Serving, IsLast
  <2>5. k + 1 \in Nat \ {0} /\ (k + 1) - 1 = k
    OBVIOUS
  <2>6. Begun(c, k + 1)
    BY <1>4, <2>4 DEF Begun
  <2>7. Begun(c, k + 1)'
    BY <1>1, <2>6, SameStream
  <2>8. InFlight(c, k + 1, 0)
    BY <1>4, <2>4 DEF Answered, Following
  <2>9. InFlight(c, k + 1, Len(con.head))'
    <3>1. PICK g \in Nat : g = 0
      OBVIOUS
    <3>2. InFlight(c, k + 1, g)'
      BY <1>1, <2>8, <3>1, SameFlight
    <3>3. Len(con'.head) = g
      BY <2>2, <3>1
    <3> QED BY <3>2, <3>3, Zenon DEF InFlight
  <2>10. Len(out'[c]) = Len(Stream(c, (k + 1) - 1)')
    <3>1. Len(out[c]) = Len(Stream(c, k))
      BY <1>4 DEF Answered
    <3>2. Stream(c, (k + 1) - 1)' = Stream(c, (k + 1) - 1)
      BY <1>1, SameStream
    <3> QED BY <1>1, <2>5, <3>1, <3>2
  <2>11. DOMAIN con'.head = {}
    BY <2>2
  <2>12. Reading(c, k + 1)'
    BY <2>2, <2>3, <2>9, <2>10, <2>11 DEF Reading
  <2>13. Session(c, k + 1)'
    BY <2>1, <2>7, <2>12 DEF Session
  <2> QED BY <2>5, <2>13
<1> QED
  BY <1>6, <1>7

LEMMA CompactSession == Well /\ Sessions /\ Compact => Sessions'
<1> SUFFICES ASSUME Well, Sessions, Compact, NEW c \in Clients, c = con'.sock, phase'[c] = "open"
             PROVE  \E k \in Nat \ {0} : Session(c, k)'
  BY DEF Sessions, Open
<1>1. UNCHANGED <<script, asked, rest, inbox, out, say>> /\ pc = "compact" /\ None \notin Clients
  BY Fields DEF Compact, Well
<1>2. Alive /\ con' = con
  BY <1>1 DEF Compact, NoCon
<1>3. phase' = phase /\ pc' = "select"
  BY <1>2 DEF Compact, Stop, Goto
<1>4. PICK k \in Nat \ {0} : Session(c, k)
  BY <1>2, <1>3 DEF Sessions, Open
<1>5. Reading(c, k) /\ Begun(c, k)'
  BY <1>1, <1>2, <1>4, SameStream DEF Session
<1>6. Reading(c, k)'
  BY <1>1, <1>2, <1>5, ReadingKept
<1> QED
  BY <1>3, <1>5, <1>6 DEF Session

----------------------------------------------------------------------------
(***************************************************************************)
(* The answer. It is printed piece by piece, flushed at any place, and     *)
(* completed.                                                              *)
(***************************************************************************)
LEMMA Extends ==
  ASSUME NEW S, NEW x \in Seq(S), NEW y \in Seq(S), NEW all \in Seq(S), IsPrefix(x, all),
         Len(x) + Len(y) <= Len(all), \A j \in 1 .. Len(y) : all[Len(x) + j] = y[j]
  PROVE  IsPrefix(x \o y, all)
<1> DEFINE a == Len(x)
           b == Len(y)
           z == x \o y
<1>1. /\ z \in Seq(S) /\ a \in Nat /\ b \in Nat /\ Len(z) = a + b
      /\ \A i \in 1 .. a : z[i] = x[i]
      /\ \A j \in 1 .. b : z[a + j] = y[j]
  BY Concatenated
<1>2. \A i \in 1 .. a : x[i] = all[i]
  BY PrefixItems
<1>3. a + b <= Len(all) /\ \A j \in 1 .. b : all[a + j] = y[j]
  OBVIOUS
<1> HIDE DEF a, b, z
<1>4. ASSUME NEW i \in 1 .. a + b PROVE z[i] = all[i]
  <2>1. CASE i <= a
    <3>1. i \in 1 .. a
      BY <1>1, <2>1
    <3> QED BY <1>1, <1>2, <3>1
  <2>2. CASE i > a
    <3>1. i - a \in 1 .. b /\ a + (i - a) = i
      BY <1>1, <2>2
    <3>2. PICK j \in 1 .. b : a + j = i
      BY <3>1
    <3>3. z[a + j] = y[j] /\ all[a + j] = y[j]
      BY <1>1, <1>3
    <3> QED BY <3>2, <3>3
  <2>3. i <= a \/ i > a
    BY <1>1
  <2> QED BY <2>1, <2>2, <2>3
<1>5. Len(z) <= Len(all) /\ \A i \in 1 .. Len(z) : z[i] = all[i]
  BY <1>1, <1>3, <1>4
<1>6. IsPrefix(z, all)
  BY <1>1, <1>5, PrefixItems, Zenon
<1> QED
  BY <1>6 DEF z

LEMMA PrefixOfWhole ==
  ASSUME NEW S, NEW x \in Seq(S), NEW y \in Seq(S), NEW all \in Seq(S), IsPrefix(x \o y, all)
  PROVE  IsPrefix(x, all)
<1> DEFINE a == Len(x)
           b == Len(y)
           z == x \o y
           n == Len(all)
<1>1. /\ z \in Seq(S) /\ a \in Nat /\ b \in Nat /\ Len(z) = a + b
      /\ \A i \in 1 .. a : z[i] = x[i]
  BY Concatenated
<1>2. Len(z) <= n /\ \A i \in 1 .. Len(z) : z[i] = all[i]
  <2> HIDE DEF z
  <2> QED BY <1>1, PrefixItems, ZenonT(60) DEF z
<1>3. n \in Nat
  BY LenProperties
<1> HIDE DEF a, b, z, n
<1>4. a <= n /\ \A i \in 1 .. a : x[i] = all[i]
  BY <1>1, <1>2, <1>3
<1> QED
  BY <1>4, PrefixItems DEF a, n

\* What the p + 1st piece of an answer is on the wire, and what ends it.
Items(r, p) ==
  IF p = Len(Lines(r)) + 1 THEN Piece(r) ELSE <<Printed(r)[p + 1]>>
Ending(r) == IF IsChunked(r) THEN <<"last">> ELSE << >>

\* Each piece that is pushed is the next one of the answer.
LEMMA NextItems ==
  ASSUME NEW r \in Request, ~ Refused(r), NEW p \in 0 .. Len(Lines(r)) + 1
  PROVE  /\ Items(r, p) \in Seq(Text) /\ Printed(r)[p + 1] \in Text
         /\ Len(Items(r, p)) \in Nat /\ Sent(r, p) \in Nat
         /\ Sent(r, p + 1) = Sent(r, p) + Len(Items(r, p))
         /\ Sent(r, p) + Len(Items(r, p)) <= Len(Answer(r))
         /\ \A j \in 1 .. Len(Items(r, p)) : Answer(r)[Sent(r, p) + j] = Items(r, p)[j]
         /\ Printed(r)[p + 1] = "blank" <=> p = Len(Lines(r))
<1> DEFINE h == Len(Lines(r))
           e == Continued(r)
           A == Answer(r)
           n == Len(Answer(r))
           f == Framed(r)
           q == Printed(r)
           item == Printed(r)[p + 1]
<1>1. /\ h \in Nat /\ e \in {0, 1} /\ q \in Seq(Text) /\ Len(q) = h + 2
      /\ \A i \in 1 .. h : q[i] = Lines(r)[i] /\ q[i] # "blank"
      /\ q[h + 1] = "blank" /\ q[h + 2] = "data"
  <2>1. DOMAIN Lines(r) = 1 .. h /\ h \in Nat
    BY HeaderText, LenProperties
  <2> QED BY <2>1, HeaderText, PrintedItems DEF Continued
<1>2. /\ n = e + h + 1 + FramedLen(r)
      /\ \A i \in 1 .. h : A[e + i] = Lines(r)[i]
      /\ A[e + h + 1] = "blank"
      /\ \A i \in 1 .. Len(f) : A[e + h + 1 + i] = f[i]
  BY AnswerItems
<1>3. /\ Len(f) = FramedLen(r) /\ FramedLen(r) \in Nat \ {0} /\ PushedLen(r) \in Nat
      /\ PushedLen(r) <= FramedLen(r) + 1 /\ PushedLen(r) >= 1
      /\ Piece(r) \in Seq(Text) /\ Len(Piece(r)) = PushedLen(r) - 1
      /\ \A j \in 1 .. PushedLen(r) - 1 : f[j] = Piece(r)[j]
  BY FramedItems, FramedLengths
<1>4. Sent(r, p) = e + p /\ p \in 0 .. h + 1
  <2>1. p \in Nat /\ p # h + 2
    BY <1>1
  <2> QED BY <1>1, <2>1 DEF Sent
<1> HIDE DEF h, e, A, n, f, q, item
<1>5. CASE p < h
  <2>1. Items(r, p) = <<item>>
    <3>1. p # h + 1
      BY <1>1, <1>4, <1>5
    <3> QED BY <3>1 DEF Items, item, h
  <2>2. p + 1 \in 1 .. h /\ p + 1 # h + 2 /\ e + (p + 1) = (e + p) + 1
    BY <1>1, <1>4, <1>5
  <2>3. item = q[p + 1] /\ item # "blank" /\ A[(e + p) + 1] = item
    BY <1>1, <1>2, <2>2 DEF item, q
  <2>4. item \in Text
    <3>1. p + 1 \in 1 .. Len(q)
      BY <1>1, <2>2
    <3> QED BY <1>1, <2>3, <3>1, ElementOfSeq
  <2>5. Sent(r, p + 1) = (e + p) + 1
    BY <1>1, <2>2 DEF Sent, e, h
  <2>6. (e + p) + 1 <= n
    BY <1>1, <1>2, <1>3, <1>4, <1>5
  <2>7. Items(r, p) \in Seq(Text) /\ Len(Items(r, p)) = 1 /\ Items(r, p)[1] = item
    BY <2>1, <2>4
  <2>8. \A j \in 1 .. 1 : A[(e + p) + j] = Items(r, p)[j]
    BY <2>3, <2>7
  <2>9. e + p \in Nat /\ p # h
    BY <1>1, <1>4, <1>5
  <2> QED BY <1>4, <2>3, <2>4, <2>5, <2>6, <2>7, <2>8, <2>9 DEF item, h, n, A
<1>6. CASE p = h
  <2>1. Items(r, p) = <<item>>
    <3>1. p # h + 1
      BY <1>1, <1>4, <1>6
    <3> QED BY <3>1 DEF Items, item, h
  <2>2. p + 1 # h + 2 /\ e + h + 1 = (e + p) + 1
    BY <1>1, <1>4, <1>6
  <2>3. item = "blank" /\ A[(e + p) + 1] = item
    BY <1>1, <1>2, <1>6, <2>2 DEF item, q
  <2>4. item \in Text
    BY <2>3 DEF Text
  <2>5. Sent(r, p + 1) = (e + p) + 1
    <3>1. Sent(r, p + 1) = e + (p + 1)
      BY <2>2 DEF Sent, e, h
    <3> QED BY <1>1, <1>4, <3>1
  <2>6. (e + p) + 1 <= n
    BY <1>1, <1>2, <1>3, <1>4, <1>6
  <2>7. Items(r, p) \in Seq(Text) /\ Len(Items(r, p)) = 1 /\ Items(r, p)[1] = item
    BY <2>1, <2>4
  <2>8. \A j \in 1 .. 1 : A[(e + p) + j] = Items(r, p)[j]
    BY <2>3, <2>7
  <2>9. e + p \in Nat
    BY <1>1, <1>4
  <2> QED BY <1>4, <1>6, <2>3, <2>4, <2>5, <2>6, <2>7, <2>8, <2>9 DEF item, h, n, A
<1>7. CASE p = h + 1
  <2>1. item = "data" /\ item \in Text /\ item # "blank"
    <3>1. p + 1 = h + 2
      BY <1>1, <1>7
    <3> QED BY <1>1, <3>1 DEF item, q, Text
  <2>2. e + p = e + h + 1 /\ e + p \in Nat /\ p + 1 = h + 2 /\ p # h
    BY <1>1, <1>7
  <2> DEFINE y == PushedLen(r)
             x == FramedLen(r)
             items == Items(r, p)
             t == Sent(r, p + 1)
  <2>3. t = e + (h + y)
    BY <2>2 DEF Sent, e, h
  <2>4. items \in Seq(Text) /\ Len(items) = y - 1 /\ \A j \in 1 .. y - 1 : f[j] = items[j]
    <3>1. items = Piece(r)
      BY <1>7 DEF Items, h
    <3> QED BY <1>3, <3>1
  <2> HIDE DEF y, x, items, t
  <2>5. y \in Nat /\ x \in Nat /\ y <= x + 1 /\ y >= 1 /\ Len(f) = x /\ n = e + h + 1 + x
    BY <1>2, <1>3 DEF x, y
  <2>6. \A j \in 1 .. y - 1 : A[(e + p) + j] = f[j]
    <3> TAKE j \in 1 .. y - 1
    <3>1. j \in 1 .. Len(f)
      BY <2>5
    <3> QED BY <1>2, <2>2, <3>1
  <2>7. t = (e + p) + (y - 1) /\ (e + p) + (y - 1) <= n /\ y - 1 \in Nat
    BY <1>1, <2>2, <2>3, <2>5
  <2>8. Len(items) \in Nat /\ t = (e + p) + Len(items) /\ (e + p) + Len(items) <= n
    BY <2>4, <2>7
  <2>9. \A j \in 1 .. Len(items) : A[(e + p) + j] = items[j]
    BY <2>4, <2>6
  <2> QED BY <1>4, <2>1, <2>2, <2>4, <2>8, <2>9 DEF item, h, n, A, q, items, t
<1> QED
  BY <1>1, <1>4, <1>5, <1>6, <1>7

\* The end of the answer.
LEMMA LastItems ==
  ASSUME NEW r \in Request, ~ Refused(r)
  PROVE  LET sent == Sent(r, Len(Lines(r)) + 2) IN
         /\ Ending(r) \in Seq(Text) /\ sent \in Nat /\ Len(Ending(r)) \in Nat
         /\ sent + Len(Ending(r)) = Len(Answer(r))
         /\ \A j \in 1 .. Len(Ending(r)) : Answer(r)[sent + j] = Ending(r)[j]
<1> DEFINE h == Len(Lines(r))
           e == Continued(r)
           A == Answer(r)
           n == Len(Answer(r))
           f == Framed(r)
           t == Sent(r, h + 2)
<1>1. h \in Nat /\ e \in {0, 1}
  BY HeaderText, LenProperties DEF Continued
<1>2. /\ n = e + h + 1 + FramedLen(r)
      /\ \A i \in 1 .. Len(f) : A[e + h + 1 + i] = f[i]
  BY AnswerItems
<1>3. /\ t = e + (h + PushedLen(r)) /\ Len(f) = FramedLen(r)
      /\ FramedLen(r) \in Nat \ {0} /\ PushedLen(r) \in Nat
  BY FramedItems, FramedLengths DEF Sent
<1> HIDE DEF h, e, A, n, f, t
<1>4. CASE IsChunked(r)
  <2>1. Ending(r) \in Seq(Text) /\ Len(Ending(r)) = 1 /\ Ending(r)[1] = "last"
    BY <1>4 DEF Ending, Text
  <2> DEFINE x == FramedLen(r)
  <2>2. Len(f) = x /\ f[x] = "last" /\ x \in Nat \ {0} /\ PushedLen(r) = x
    BY <1>3, <1>4, FramedItems, FramedLengths DEF f
  <2>6. t = e + (h + x) /\ n = e + h + 1 + x
    BY <1>2, <1>3, <2>2
  <2> HIDE DEF x
  <2>3. e + h + 1 + x = t + 1 /\ t \in Nat /\ n = t + 1
    BY <1>1, <2>2, <2>6
  <2>4. A[t + 1] = "last"
    <3>1. x \in 1 .. Len(f)
      BY <2>2
    <3>2. A[e + h + 1 + x] = f[x]
      BY <1>2, <3>1
    <3> QED BY <2>2, <2>3, <3>2
  <2>5. \A j \in 1 .. 1 : A[t + j] = Ending(r)[j]
    BY <2>1, <2>4
  <2> QED BY <2>1, <2>3, <2>5 DEF t, n, A, h
<1>5. CASE ~ IsChunked(r)
  <2>1. Ending(r) = << >> /\ Len(<< >>) = 0 /\ << >> \in Seq(Text)
    BY <1>5 DEF Ending
  <2>4. PushedLen(r) = FramedLen(r) + 1
    BY <1>5, FramedLengths
  <2>2. t \in Nat /\ n = t + 0
    BY <1>1, <1>2, <1>3, <2>4
  <2>3. \A j \in 1 .. 0 : A[t + j] = Ending(r)[j]
    BY SMTT(30)
  <2> QED BY <2>1, <2>2, <2>3 DEF t, n, A, h
<1> QED
  BY <1>4, <1>5, Zenon

\* What one wby_write makes of io_buf and the socket.
LEMMA Pushed ==
  ASSUME TypeOK, NEW item \in Text
  PROVE  LET none == [io |-> con.io, sent |-> << >>]
             s == IF "chunked" \in con.flags THEN Push(Push(Push(none, <<"chunk">>), Units(item)), <<"crlf">>)
                  ELSE Push(none, Units(item))
             items == IF "chunked" \in con.flags THEN (<<"chunk">> \o Units(item)) \o <<"crlf">>
                      ELSE Units(item) IN
         /\ s.sent \in Seq(Text) /\ s.io \in Seq(Text) /\ items \in Seq(Text)
         /\ s.sent \o s.io = con.io \o items
<1> DEFINE State == [io : Seq(Text), sent : Seq(Text)]
           none == [io |-> con.io, sent |-> << >>]
           i == con.io
           a == <<"chunk">>
           u == Units(item)
           d == <<"crlf">>
<1>1. none \in State /\ none.sent \o none.io = i /\ i \in Seq(Text)
  <2>1. i \in Seq(Text) /\ << >> \in Seq(Text)
    BY Fields
  <2>2. << >> \o i = i
    BY <2>1, ConcatEmptySeq
  <2> QED BY <2>1, <2>2
<1>2. a \in Seq(Text) /\ u \in Seq(Text) /\ d \in Seq(Text)
  <2>1. u \in Seq(Text)
    BY UnitsType
  <2>2. a \in Seq(Text) /\ d \in Seq(Text)
    BY DEF Text
  <2> QED BY <2>1, <2>2
<1> HIDE DEF none, i, a, u, d
<1>3. CASE "chunked" \in con.flags
  <2> DEFINE s1 == Push(none, a)
             s2 == Push(s1, u)
             s3 == Push(s2, d)
  <2>1. s1 \in State /\ s1.sent \o s1.io = i \o a
    BY <1>1, <1>2, PushItem, Zenon
  <2> HIDE DEF s1
  <2>2. s2 \in State /\ s2.sent \o s2.io = (i \o a) \o u
    BY <1>2, <2>1, PushItem, Zenon
  <2> HIDE DEF s2
  <2>3. s3 \in State /\ s3.sent \o s3.io = ((i \o a) \o u) \o d
    BY <1>2, <2>2, PushItem, Zenon
  <2> HIDE DEF s3
  <2>4. a \o u \in Seq(Text) /\ (a \o u) \o d \in Seq(Text)
    BY <1>2, ConcatProperties
  <2>5. (i \o a) \o u = i \o (a \o u)
    BY <1>1, <1>2, ConcatAssociative, SMTT(30)
  <2>6. (i \o (a \o u)) \o d = i \o ((a \o u) \o d)
    BY <1>1, <1>2, <2>4, ConcatAssociative, SMTT(30)
  <2>7. s3.sent \o s3.io = i \o ((a \o u) \o d)
    BY <2>3, <2>5, <2>6, Zenon
  <2>8. s3.sent \in Seq(Text) /\ s3.io \in Seq(Text)
    BY <2>3
  <2> QED BY <1>3, <2>4, <2>7, <2>8, Zenon DEF s1, s2, s3, i, none, a, u, d
<1>4. CASE "chunked" \notin con.flags
  <2> DEFINE s1 == Push(none, u)
  <2>1. s1 \in State /\ s1.sent \o s1.io = i \o u
    BY <1>1, <1>2, PushItem, Zenon
  <2> HIDE DEF s1
  <2>2. s1.sent \in Seq(Text) /\ s1.io \in Seq(Text)
    BY <2>1
  <2> QED BY <1>2, <1>4, <2>1, <2>2, Zenon DEF s1, i, none, u
<1> QED
  BY <1>3, <1>4, Zenon

\* However io_buf is flushed, what was received and what is buffered remain
\* the beginning of what the client is to receive.
LEMMA RespondWhole ==
  ASSUME Well, NEW c \in Clients, c = con.sock, NEW k \in Nat \ {0}, Begun(c, k), Open(c),
         Responding(c, k), Respond, ~ Kill
  PROVE  Responding(c, k)' /\ IsPrefix(out[c], Stream(c, Len(script[c])))' /\ pc' = pc
<1> DEFINE r == con.req
           h == Len(Lines(r))
           b == Len(Stream(c, k - 1))
           all == Stream(c, Len(script[c]))
           A == Answer(r)
           x == out[c] \o con.io
           item == Head(say)
           none == [io |-> con.io, sent |-> << >>]
           s == IF "chunked" \in con.flags THEN Push(Push(Push(none, <<"chunk">>), Units(item)), <<"crlf">>)
                ELSE Push(none, Units(item))
           f == con.flags \cup (IF item = "blank" /\ IsChunked(con.req) THEN {"chunked"} ELSE {})
<1>1. /\ con \in Connection /\ Serving(c, k) /\ r = script[c][k] /\ k \in DOMAIN script[c]
      /\ ~ Refused(r) /\ say \in Seq(Text) /\ say # << >>
  BY DEF Responding, Serving, Respond, Well, TypeOK
<1>2. /\ r \in Request /\ b \in Nat /\ Len(A) \in Nat /\ all \in Seq(Text) /\ Len(all) \in Nat
      /\ b + Len(A) <= Len(all) /\ \A i \in 1 .. Len(A) : all[b + i] = A[i]
  <2> DEFINE R == script[c][k]
             B == Answer(R)
  <2>1. script \in Scripts
    BY DEF Well, TypeOK
  <2>2. /\ R \in Request /\ b \in Nat /\ Len(B) \in Nat /\ all \in Seq(Text)
        /\ Len(all) \in Nat /\ b + Len(B) <= Len(all)
        /\ \A i \in 1 .. Len(B) : all[b + i] = B[i]
    BY <1>1, <2>1, StreamServes, Zenon
  <2> HIDE DEF R
  <2>3. r = R
    BY <1>1 DEF R
  <2> QED BY <2>2, <2>3
<1>3. PICK p \in 0 .. h + 2 :
        /\ Len(say) = h + 2 - p
        /\ \A i \in DOMAIN say : say[i] = Printed(r)[p + i]
        /\ "chunked" \in con.flags <=> p > h /\ IsChunked(r)
        /\ Len(out[c]) + Len(con.io) = b + Sent(r, p)
  BY Zenon DEF Responding
<1>4. /\ Len(say) \in Nat /\ Len(say) >= 1 /\ item = say[1] /\ item \in Text
      /\ Tail(say) \in Seq(Text) /\ Len(Tail(say)) = Len(say) - 1
      /\ \A i \in 1 .. Len(say) - 1 : Tail(say)[i] = say[i + 1]
      /\ DOMAIN say = 1 .. Len(say) /\ DOMAIN Tail(say) = 1 .. Len(say) - 1
  <2>1. /\ Len(say) \in Nat /\ Len(say) >= 1 /\ item = say[1] /\ item \in Text
        /\ Tail(say) \in Seq(Text) /\ Len(Tail(say)) = Len(say) - 1
        /\ \A i \in 1 .. Len(say) - 1 : Tail(say)[i] = say[i + 1]
    BY <1>1, FirstAndRest
  <2> QED BY <1>1, <2>1, LenProperties
<1>5. h \in Nat
  BY <1>2, HeaderText, LenProperties
<1> DEFINE q == Len(say)
<1>6. /\ q \in Nat /\ q >= 1 /\ q = h + 2 - p /\ p \in 0 .. h + 2 /\ DOMAIN say = 1 .. q
      /\ \A i \in 1 .. q - 1 : Tail(say)[i] = say[i + 1]
  BY <1>3, <1>4
<1> HIDE DEF r, h, b, all, A, x, item, q
<1>7. p \in 0 .. h + 1 /\ p + 1 \in 0 .. h + 2 /\ q - 1 = h + 2 - (p + 1)
  BY <1>5, <1>6
<1> DEFINE items == Items(r, p)
           m == Len(items)
           u == Sent(r, p)
           v == Sent(r, p + 1)
<1>8. /\ items \in Seq(Text) /\ m \in Nat /\ u \in Nat /\ v = u + m /\ u + m <= Len(A)
      /\ \A j \in 1 .. m : A[u + j] = items[j]
      /\ Printed(r)[p + 1] = "blank" <=> p = h
  BY <1>1, <1>2, <1>7, NextItems DEF h, A
<1>9. item = Printed(r)[p + 1]
  <2>1. 1 \in DOMAIN say
    BY <1>4
  <2> QED BY <1>3, <1>4, <2>1, Zenon
<1>10. items = IF "chunked" \in con.flags THEN (<<"chunk">> \o Units(item)) \o <<"crlf">>
              ELSE Units(item)
  <2>1. CASE p = h + 1
    <3>1. p > h /\ p + 1 = h + 2
      BY <1>5, <2>1
    <3>2. item = "data"
      <4>1. Printed(r)[h + 2] = "data"
        BY <1>2, PrintedItems DEF h
      <4> QED BY <1>9, <3>1, <4>1
    <3>3. Units(item) = Data
      BY <3>2 DEF Units
    <3>4. items = Piece(r)
      BY <2>1 DEF Items, h
    <3> QED BY <1>3, <3>1, <3>3, <3>4, Zenon DEF Piece
  <2>2. CASE p # h + 1
    <3>1. ~ (p > h) /\ p + 1 \in 1 .. h + 1
      BY <1>5, <1>7, <2>2
    <3>2. item # "data"
      <4>1. CASE p + 1 = h + 1
        <5>1. Printed(r)[h + 1] = "blank"
          BY <1>2, PrintedItems DEF h
        <5> QED BY <1>9, <4>1, <5>1
      <4>2. CASE p + 1 \in 1 .. h
        <5>1. DOMAIN Lines(r) = 1 .. h
          BY <1>2, HeaderText, LenProperties DEF h
        <5>2. Printed(r)[p + 1] = Lines(r)[p + 1] /\ Lines(r)[p + 1] \notin {"blank", "data"}
          BY <1>2, <4>2, <5>1, HeaderText, PrintedItems DEF h
        <5> QED BY <1>9, <5>2
      <4> QED BY <1>5, <3>1, <4>1, <4>2
    <3>3. Units(item) = <<item>> /\ items = <<item>>
      BY <1>9, <2>2, <3>2 DEF Units, Items, h
    <3> QED BY <1>3, <3>1, <3>3
  <2> QED BY <2>1, <2>2
<1>11. s.sent \in Seq(Text) /\ s.io \in Seq(Text) /\ s.sent \o s.io = con.io \o items
  BY <1>4, <1>10, Pushed, Zenon DEF Well
<1>12. /\ SendTo(c, s.sent) /\ con' = [con EXCEPT !.io = s.io, !.flags = f] /\ say' = Tail(say)
       /\ UNCHANGED <<script, phase, asked, rest, inbox, pc>>
  BY DEF Respond, MayKill, client, item, r
<1> HIDE DEF s, f, items, m, u, v
<1>13. /\ con'.io = s.io /\ con'.flags = f /\ con'.req = r /\ con'.sock = c
  BY <1>1, <1>12 DEF Connection, r
<1>14. out'[c] = out[c] \o s.sent /\ out[c] \in Seq(Text) /\ con.io \in Seq(Text)
  BY <1>11, <1>12, Delivered, Fields, Zenon DEF Well
<1>15. out'[c] \o con'.io = x \o items
  <2>1. (out[c] \o s.sent) \o s.io = out[c] \o (s.sent \o s.io)
    <3> DEFINE o == out[c]
               y == s.sent
               z == s.io
    <3>1. o \in Seq(Text) /\ y \in Seq(Text) /\ z \in Seq(Text)
      BY <1>11, <1>14
    <3> HIDE DEF o, y, z
    <3>2. (o \o y) \o z = o \o (y \o z)
      BY <3>1, ConcatAssociative, SMTT(30)
    <3> QED BY <3>2 DEF o, y, z
  <2>2. (out[c] \o con.io) \o items = out[c] \o (con.io \o items)
    <3> DEFINE o == out[c]
               y == con.io
    <3>1. o \in Seq(Text) /\ y \in Seq(Text) /\ items \in Seq(Text)
      BY <1>8, <1>14
    <3> HIDE DEF o, y
    <3>2. (o \o y) \o items = o \o (y \o items)
      BY <3>1, ConcatAssociative, SMTT(30)
    <3> QED BY <3>2 DEF o, y
  <2> QED BY <1>11, <1>13, <1>14, <2>1, <2>2 DEF x
<1>16. x \in Seq(Text) /\ Len(x) = b + u /\ IsPrefix(x, all)
  <2>1. x \in Seq(Text) /\ Len(x) = Len(out[c]) + Len(con.io)
    BY <1>14, Concatenated DEF x
  <2> QED BY <1>3, <2>1, Zenon DEF Responding, x, all, u
<1>17. IsPrefix(x \o items, all)
  <2>1. Len(x) + m <= Len(all)
    BY <1>2, <1>8, <1>16
  <2>2. \A j \in 1 .. m : all[Len(x) + j] = items[j]
    <3> TAKE j \in 1 .. m
    <3>1. u + j \in 1 .. Len(A) /\ (b + u) + j = b + (u + j)
      <4>1. u \in Nat /\ m \in Nat /\ b \in Nat /\ Len(A) \in Nat /\ u + m <= Len(A)
        BY <1>2, <1>8
      <4> QED BY <4>1
    <3> QED BY <1>2, <1>8, <1>16, <3>1
  <2> QED BY <1>2, <1>8, <1>16, <2>1, <2>2, Extends, Zenon DEF m
<1>18. out'[c] \in Seq(Text) /\ con'.io \in Seq(Text)
  BY <1>11, <1>13, <1>14, ConcatProperties
<1>19. Stream(c, Len(script[c]))' = all /\ Stream(c, k - 1)' = Stream(c, k - 1)
  BY <1>12, SameStream DEF all
<1>20. IsPrefix(out'[c] \o con'.io, all) /\ IsPrefix(out'[c], all)
  <2>1. IsPrefix(out'[c] \o con'.io, all)
    BY <1>15, <1>17
  <2> QED BY <1>2, <1>18, <2>1, PrefixOfWhole
<1>21. Len(out'[c]) + Len(con'.io) = b + v
  <2>1. Len(out'[c] \o con'.io) = Len(out'[c]) + Len(con'.io)
    BY <1>18, Concatenated
  <2>2. Len(x \o items) = Len(x) + m
    BY <1>8, <1>16, Concatenated, Zenon DEF m
  <2> DEFINE lx == Len(x)
             lo == Len(x \o items)
             ln == Len(out'[c]) + Len(con'.io)
  <2>3. lx = b + u /\ lo = lx + m /\ lo = ln
    BY <1>15, <1>16, <2>1, <2>2, Zenon
  <2> HIDE DEF lx, lo, ln
  <2>4. ln = b + v
    BY <1>2, <1>8, <2>3
  <2> QED BY <2>4, Zenon DEF ln
<1>22. "chunked" \in f <=> p + 1 > h /\ IsChunked(r)
  <2>1. item = "blank" <=> p = h
    BY <1>8, <1>9
  <2>2. p + 1 > h <=> p > h \/ p = h
    BY <1>5, <1>7
  <2> QED BY <1>3, <2>1, <2>2 DEF f, r
<1>23. /\ Len(say') = h + 2 - (p + 1)
       /\ \A i \in DOMAIN say' : say'[i] = Printed(r)[(p + 1) + i]
  <2>1. Len(say') = q - 1
    BY <1>4, <1>12 DEF q
  <2>2. ASSUME NEW i \in 1 .. q - 1 PROVE say'[i] = Printed(r)[(p + 1) + i]
    <3>1. i + 1 \in DOMAIN say /\ p + (i + 1) = (p + 1) + i
      <4>1. i \in Nat /\ p \in Nat /\ i + 1 \in 1 .. q
        BY <1>5, <1>6
      <4> QED BY <1>6, <4>1
    <3>2. say'[i] = say[i + 1]
      BY <1>6, <1>12
    <3> QED BY <1>3, <3>1, <3>2
  <2> QED BY <1>4, <1>7, <1>12, <2>1, <2>2 DEF q
<1>24. Serving(c, k)' /\ asked'[c] >= k /\ Following(c, k)'
  <2>1. Serving(c, k)'
    BY <1>1, <1>12, <1>13 DEF Serving, r
  <2>2. asked'[c] >= k /\ Following(c, k)
    BY <1>12 DEF Responding
  <2>3. IsLast(c, k)' = IsLast(c, k)
    BY <1>12, SameStream
  <2>4. InFlight(c, k + 1, 0) => InFlight(c, k + 1, 0)'
    <3>1. PICK g \in Nat : g = 0
      OBVIOUS
    <3>2. InFlight(c, k + 1, g) => InFlight(c, k + 1, g)'
      BY <1>12, SameFlight
    <3> QED BY <3>1, <3>2
  <2> QED BY <2>1, <2>2, <2>3, <2>4 DEF Following
<1>25. "alive" \in f /\ ("close" \in f <=> r.close)
  BY DEF Responding, f, r
<1>26. Responding(c, k)'
  BY <1>7, <1>13, <1>19, <1>20, <1>21, <1>22, <1>23, <1>24, <1>25, Zenon DEF Responding, h, b, v
<1> QED
  BY <1>12, <1>19, <1>20, <1>26 DEF all

\* The last flush.
LEMMA Ended ==
  ASSUME TypeOK
  PROVE  LET none == [io |-> con.io, sent |-> << >>]
             s == IF "chunked" \in con.flags THEN Push(none, <<"last">>) ELSE none
             items == IF "chunked" \in con.flags THEN <<"last">> ELSE << >> IN
         /\ s.sent \o s.io \in Seq(Text) /\ items \in Seq(Text)
         /\ s.sent \o s.io = con.io \o items
<1> DEFINE State == [io : Seq(Text), sent : Seq(Text)]
           none == [io |-> con.io, sent |-> << >>]
           i == con.io
<1>1. i \in Seq(Text) /\ << >> \in Seq(Text) /\ << >> \o i = i /\ i \o << >> = i
  <2>1. i \in Seq(Text) /\ << >> \in Seq(Text)
    BY Fields
  <2> QED BY <2>1, ConcatEmptySeq
<1>2. none \in State /\ none.sent \o none.io = i
  BY <1>1
<1>3. <<"last">> \in Seq(Text)
  BY DEF Text
<1> HIDE DEF none, i
<1>4. CASE "chunked" \in con.flags
  <2> DEFINE s1 == Push(none, <<"last">>)
  <2>1. s1 \in State /\ s1.sent \o s1.io = i \o <<"last">>
    BY <1>2, <1>3, PushItem, Zenon
  <2> HIDE DEF s1
  <2>2. s1.sent \in Seq(Text) /\ s1.io \in Seq(Text) /\ <<"last">> \in Seq(Text)
    BY <1>3, <2>1
  <2>3. s1.sent \o s1.io \in Seq(Text)
    BY <2>2, ConcatProperties
  <2> QED BY <1>4, <2>1, <2>2, <2>3, Zenon DEF s1, i, none
<1>5. CASE "chunked" \notin con.flags
  BY <1>1, <1>2, <1>5 DEF i, none
<1> QED
  BY <1>4, <1>5, Zenon

\* After the end the answer is complete.
LEMMA EndWhole ==
  ASSUME Well, NEW c \in Clients, c = con.sock, NEW k \in Nat \ {0}, Begun(c, k), Open(c),
         Responding(c, k), End, ~ Kill
  PROVE  /\ IsPrefix(out[c], Stream(c, Len(script[c])))'
         /\ ~ EndsIt(con.req) => Answered(c, k)' /\ pc' = "after"
<1> DEFINE r == con.req
           h == Len(Lines(r))
           b == Len(Stream(c, k - 1))
           all == Stream(c, Len(script[c]))
           A == Answer(r)
           x == out[c] \o con.io
           none == [io |-> con.io, sent |-> << >>]
           s == IF "chunked" \in con.flags THEN Push(none, <<"last">>) ELSE none
           t == s.sent \o s.io
           items == Ending(r)
           m == Len(items)
           u == Sent(r, h + 2)
<1>1. /\ con \in Connection /\ Serving(c, k) /\ r = script[c][k] /\ k \in DOMAIN script[c]
      /\ ~ Refused(r) /\ say = << >>
  BY DEF Responding, Serving, End, Well, TypeOK
<1>2. /\ r \in Request /\ b \in Nat /\ Len(A) \in Nat /\ all \in Seq(Text) /\ Len(all) \in Nat
      /\ Len(Stream(c, k)) = b + Len(A)
      /\ b + Len(A) <= Len(all) /\ \A i \in 1 .. Len(A) : all[b + i] = A[i]
  <2> DEFINE R == script[c][k]
             B == Answer(R)
  <2>1. script \in Scripts
    BY DEF Well, TypeOK
  <2>2. /\ R \in Request /\ b \in Nat /\ Len(B) \in Nat /\ all \in Seq(Text)
        /\ Len(all) \in Nat /\ b + Len(B) <= Len(all) /\ Len(Stream(c, k)) = b + Len(B)
        /\ \A i \in 1 .. Len(B) : all[b + i] = B[i]
    BY <1>1, <2>1, StreamServes, Zenon
  <2> HIDE DEF R
  <2>3. r = R
    BY <1>1 DEF R
  <2> QED BY <2>2, <2>3
<1>3. PICK p \in 0 .. h + 2 :
        /\ Len(say) = h + 2 - p
        /\ "chunked" \in con.flags <=> p > h /\ IsChunked(r)
        /\ Len(out[c]) + Len(con.io) = b + Sent(r, p)
  BY Zenon DEF Responding
<1>4. h \in Nat
  BY <1>2, HeaderText, LenProperties
<1> HIDE DEF r, h, b, all, A, x
<1>5. p = h + 2
  <2>1. Len(say) = 0
    BY <1>1
  <2> QED BY <1>3, <1>4, <2>1
<1>6. "chunked" \in con.flags <=> IsChunked(r)
  <2>1. p > h
    BY <1>4, <1>5
  <2> QED BY <1>3, <2>1
<1>7. /\ items \in Seq(Text) /\ m \in Nat /\ u \in Nat /\ u + m = Len(A)
      /\ \A j \in 1 .. m : A[u + j] = items[j]
  BY <1>1, <1>2, LastItems DEF h, A
<1>8. t \in Seq(Text) /\ t = con.io \o items
  BY <1>6, Ended, Zenon DEF Well, Ending
<1> DEFINE closes == EndsIt(con.req)
           phase1 == IF closes THEN Closed(con.sock) ELSE phase
           con1 == IF closes THEN CloseCon([con EXCEPT !.io = << >>])
                   ELSE [con EXCEPT !.io = << >>, !.flags = @ \ {"chunked"}]
<1>9. SendTo(c, t) /\ con' = con1 /\ pc' = "after" /\ UNCHANGED <<script, asked, rest, inbox>>
  BY DEF End, MayKill, Goto
<1> HIDE DEF t, items, m, u, con1
<1>10. out'[c] = out[c] \o t /\ out[c] \in Seq(Text) /\ con.io \in Seq(Text)
  BY <1>8, <1>9, Delivered, Fields, Zenon DEF Well
<1>11. out'[c] = x \o items
  <2> DEFINE o == out[c]
             y == con.io
  <2>1. o \in Seq(Text) /\ y \in Seq(Text) /\ items \in Seq(Text)
    BY <1>7, <1>10
  <2> HIDE DEF o, y
  <2>2. (o \o y) \o items = o \o (y \o items)
    BY <2>1, ConcatAssociative, SMTT(30)
  <2> QED BY <1>8, <1>10, <2>2 DEF o, y, x
<1>12. x \in Seq(Text) /\ Len(x) = b + u /\ IsPrefix(x, all)
  <2>1. x \in Seq(Text) /\ Len(x) = Len(out[c]) + Len(con.io)
    BY <1>10, Concatenated DEF x
  <2>2. Sent(r, p) = u
    BY <1>5 DEF u
  <2>3. IsPrefix(x, all)
    BY DEF Responding, x, all
  <2> QED BY <1>3, <2>1, <2>2, <2>3, Zenon
<1>13. IsPrefix(x \o items, all)
  <2>1. Len(x) + m <= Len(all)
    BY <1>2, <1>7, <1>12
  <2>2. \A j \in 1 .. m : all[Len(x) + j] = items[j]
    <3> TAKE j \in 1 .. m
    <3>1. u + j \in 1 .. Len(A) /\ (b + u) + j = b + (u + j)
      <4>1. u \in Nat /\ m \in Nat /\ b \in Nat /\ Len(A) \in Nat /\ u + m = Len(A)
        BY <1>2, <1>7
      <4> QED BY <4>1
    <3> QED BY <1>2, <1>7, <1>12, <3>1
  <2> QED BY <1>2, <1>7, <1>12, <2>1, <2>2, Extends, Zenon DEF m
<1>14. /\ Stream(c, Len(script[c]))' = all /\ Stream(c, k)' = Stream(c, k)
  BY <1>9, SameStream DEF all
<1>15. Len(out'[c]) = Len(Stream(c, k))
  <2>1. Len(x \o items) = Len(x) + m
    BY <1>7, <1>12, Concatenated, Zenon DEF m
  <2> DEFINE lx == Len(x)
             lo == Len(x \o items)
             ls == Len(Stream(c, k))
             n == Len(A)
  <2>2. lx = b + u /\ lo = lx + m /\ ls = b + n
    BY <1>2, <1>12, <2>1
  <2>3. u + m = n /\ b \in Nat /\ u \in Nat /\ m \in Nat /\ n \in Nat
    BY <1>2, <1>7
  <2> HIDE DEF lx, lo, ls, n
  <2>4. lo = ls
    BY <2>2, <2>3
  <2> QED BY <1>11, <2>4 DEF lo, ls
<1>16. ~ EndsIt(con.req) => Answered(c, k)'
  <2> SUFFICES ASSUME ~ EndsIt(con.req) PROVE Answered(c, k)'
    OBVIOUS
  <2>1. con' = [con EXCEPT !.io = << >>, !.flags = con.flags \ {"chunked"}]
    BY <1>9 DEF con1
  <2>2. con'.flags = con.flags \ {"chunked"} /\ con'.req = con.req
    BY <1>1, <2>1 DEF Connection
  <2>3. Serving(c, k)'
    BY <1>1, <1>9, <2>2 DEF Serving
  <2>4. asked'[c] >= k /\ Following(c, k)
    BY <1>9 DEF Responding
  <2>5. IsLast(c, k)' = IsLast(c, k)
    BY <1>9, SameStream
  <2>6. InFlight(c, k + 1, 0) => InFlight(c, k + 1, 0)'
    <3>1. PICK g \in Nat : g = 0
      OBVIOUS
    <3>2. InFlight(c, k + 1, g) => InFlight(c, k + 1, g)'
      BY <1>9, SameFlight
    <3> QED BY <3>1, <3>2
  <2>7. Following(c, k)'
    BY <2>4, <2>5, <2>6 DEF Following
  <2>8. con'.flags = {"alive"} \cup (IF con'.req.close THEN {"close"} ELSE {})
    BY <1>1, <2>2, ZenonT(60) DEF Responding, Connection
  <2>9. ~ EndsIt(con'.req)
    BY <2>2
  <2> QED BY <1>14, <1>15, <2>3, <2>4, <2>7, <2>8, <2>9 DEF Answered
<1> QED
  BY <1>9, <1>11, <1>13, <1>14, <1>16 DEF all

LEMMA RespondSession == Well /\ Sessions /\ Respond => Sessions'
<1> SUFFICES ASSUME Well, Sessions, Respond, NEW c \in Clients, c = con'.sock, phase'[c] = "open"
             PROVE  \E k \in Nat \ {0} : Session(c, k)'
  BY DEF Sessions, Open
<1>1. ~ Kill
  BY DEF Kill
<1>2. UNCHANGED <<script, phase>> /\ pc = "respond" /\ con \in Connection
  BY <1>1 DEF Respond, MayKill, client, Well, TypeOK
<1> DEFINE item == Head(say)
           none == [io |-> con.io, sent |-> << >>]
           s == IF "chunked" \in con.flags THEN Push(Push(Push(none, <<"chunk">>), Units(item)), <<"crlf">>)
                ELSE Push(none, Units(item))
           f == con.flags \cup (IF item = "blank" /\ IsChunked(con.req) THEN {"chunked"} ELSE {})
<1>3. con' = [con EXCEPT !.io = s.io, !.flags = f]
  BY <1>1 DEF Respond, MayKill
<1> HIDE DEF s, f
<1>4. c = con.sock /\ Open(c)
  BY <1>2, <1>3 DEF Connection, Open
<1>5. PICK k \in Nat \ {0} : Session(c, k)
  BY <1>4 DEF Sessions
<1>6. Responding(c, k) /\ Begun(c, k) /\ Begun(c, k)'
  BY <1>2, <1>5, SameStream DEF Session
<1>7. Responding(c, k)' /\ pc' = pc
  BY <1>1, <1>4, <1>6, RespondWhole
<1> QED
  BY <1>2, <1>6, <1>7 DEF Session

LEMMA EndSession == Well /\ Sessions /\ End => Sessions'
<1> SUFFICES ASSUME Well, Sessions, End, NEW c \in Clients, c = con'.sock, phase'[c] = "open"
             PROVE  \E k \in Nat \ {0} : Session(c, k)'
  BY DEF Sessions, Open
<1>1. ~ Kill /\ None \notin Clients
  BY Fields DEF Kill, Well
<1>2. script' = script /\ pc = "respond" /\ con \in Connection
  BY <1>1 DEF End, MayKill, Well, TypeOK
<1>3. ~ EndsIt(con.req)
  <2> SUFFICES ASSUME EndsIt(con.req) PROVE FALSE
    OBVIOUS
  <2>1. con' = CloseCon([con EXCEPT !.io = << >>])
    BY <1>1 DEF End, MayKill
  <2>2. con'.sock = None
    BY <1>2, <2>1 DEF CloseCon, Connection
  <2> QED BY <1>1, <2>2
<1>4. con' = [con EXCEPT !.io = << >>, !.flags = con.flags \ {"chunked"}] /\ phase' = phase
  BY <1>1, <1>3 DEF End, MayKill
<1>5. c = con.sock /\ Open(c)
  BY <1>2, <1>4 DEF Connection, Open
<1>6. PICK k \in Nat \ {0} : Session(c, k)
  BY <1>5 DEF Sessions
<1>7. Responding(c, k) /\ Begun(c, k) /\ Begun(c, k)'
  BY <1>2, <1>6, SameStream DEF Session
<1>8. Answered(c, k)' /\ pc' = "after"
  BY <1>1, <1>3, <1>5, <1>7, EndWhole
<1> QED
  BY <1>7, <1>8 DEF Session

LEMMA ServerSessions == Well /\ Apart /\ AnswersWhole /\ Sessions /\ ServerNext => Sessions'
BY SelectSession, AcceptSession, RecvSession, ParseSession, ContinueSession, ServeSession,
   DiscardSession, RespondSession, EndSession, AfterSession, CompactSession DEF ServerNext

----------------------------------------------------------------------------
(***************************************************************************)
(* What every step leaves of AnswersWhole, and the theorems.               *)
(***************************************************************************)
LEMMA NothingSentWhole == Well /\ AnswersWhole /\ script' = script /\ out' = out => AnswersWhole'
BY SameStream DEF AnswersWhole

LEMMA SendKeepsWhole ==
  ASSUME Well, AnswersWhole, NEW c \in Clients, NEW items \in Seq(Text), SendTo(c, items),
         script' = script,
         Open(c) => IsPrefix(out[c], Stream(c, Len(script[c])))'
  PROVE  AnswersWhole'
<1> SUFFICES ASSUME NEW d \in Clients
             PROVE  IsPrefix(out'[d], Stream(d, Len(script[d]))')
  BY DEF AnswersWhole
<1>1. Stream(d, Len(script[d]))' = Stream(d, Len(script[d]))
  BY SameStream
<1>2. IsPrefix(out[d], Stream(d, Len(script[d])))
  BY DEF AnswersWhole
<1>3. CASE d # c \/ ~ Open(c)
  <2>1. out'[d] = out[d]
    BY <1>3, Delivered DEF Well
  <2> QED BY <1>1, <1>2, <2>1
<1>4. CASE d = c /\ Open(c)
  BY <1>4
<1> QED
  BY <1>3, <1>4

LEMMA ContinueKeepsWhole == Well /\ Sessions /\ AnswersWhole /\ Continue => AnswersWhole'
<1> SUFFICES ASSUME Well, Sessions, AnswersWhole, Continue PROVE AnswersWhole'
  OBVIOUS
<1>1. CASE Kill
  BY <1>1, NothingSentWhole DEF Kill
<1>3. CASE Die /\ UNCHANGED <<client, out>>
  BY <1>3, NothingSentWhole DEF client
<1>2. CASE ~ Kill /\ ~ (Die /\ UNCHANGED <<client, out>>)
  <2> DEFINE y == <<"continue">>
  <2>5. PICK c \in Clients : c = con.sock
    BY Fields DEF Continue, Well, Shape
  <2>1. SendTo(c, y) /\ pc = "continue" /\ script' = script
    BY <1>2, <2>5 DEF Continue, MayKill, client
  <2>2. y \in Seq(Text) /\ Len(y) = 1 /\ y[1] = "continue"
    BY DEF Text
  <2> HIDE DEF y
  <2>3. ASSUME NEW d \in Clients, d = c, Open(d)
        PROVE  IsPrefix(out[d], Stream(d, Len(script[d])))'
    <3> DEFINE x == out[d]
               all == Stream(d, Len(script[d]))
    <3>1. PICK k \in Nat \ {0} : Session(d, k)
      BY <2>3, <2>5 DEF Sessions
    <3>2. /\ InBody(d, k) /\ Serving(d, k) /\ Begun(d, k) /\ con.req.expect
          /\ Len(x) = Len(Stream(d, k - 1)) + 0
      BY <2>1, <3>1 DEF Session, InBody
    <3> DEFINE R == script[d][k]
               A == Answer(R)
               b == Len(Stream(d, k - 1))
    <3>3. R.expect /\ ~ Refused(R) /\ k \in DOMAIN script[d] /\ script \in Scripts
      BY <3>2, Zenon DEF Serving, Well, TypeOK
    <3>4. /\ R \in Request /\ b \in Nat /\ Len(A) \in Nat /\ all \in Seq(Text)
          /\ Len(all) \in Nat /\ b + Len(A) <= Len(all)
          /\ \A i \in 1 .. Len(A) : all[b + i] = A[i]
      BY <3>2, <3>3, StreamServes
    <3>5. x \in Seq(Text) /\ Len(x) = b /\ IsPrefix(x, all)
      BY <3>2, <3>4, Fields DEF AnswersWhole, Well
    <3>6. out'[d] = x \o y
      BY <2>1, <2>2, <2>3, Delivered, Zenon DEF Well
    <3>7. Len(A) >= 1 /\ A[1] = "continue"
      <4> HIDE DEF R
      <4>1. /\ Len(A) = Continued(R) + Len(Lines(R)) + 1 + FramedLen(R)
            /\ A[1] = "continue" /\ Len(Lines(R)) \in Nat
        BY <3>3, <3>4, AnswerItems, HeaderText, LenProperties, Zenon
      <4>2. Continued(R) = 1
        BY <3>3 DEF Continued
      <4> DEFINE h == Len(Lines(R))
                 n == Len(A)
                 z == FramedLen(R)
      <4>3. n = 1 + h + 1 + z /\ h \in Nat /\ z \in Nat
        BY <4>1, <4>2, FramedLengths
      <4> HIDE DEF h, n, z
      <4>4. n >= 1
        BY <4>3
      <4> QED BY <4>1, <4>4 DEF n
    <3> HIDE DEF x, all, A, b
    <3>8. IsPrefix(x \o y, all)
      <4>1. Len(x) + Len(y) <= Len(all)
        BY <2>2, <3>4, <3>5, <3>7
      <4>2. \A j \in 1 .. Len(y) : all[Len(x) + j] = y[j]
        <5> SUFFICES all[b + 1] = y[1]
          BY <2>2, <3>5
        <5>1. 1 \in 1 .. Len(A)
          BY <3>4, <3>7
        <5> QED BY <2>2, <3>4, <3>7, <5>1
      <4>3. x \in Seq(Text) /\ all \in Seq(Text) /\ IsPrefix(x, all) /\ y \in Seq(Text)
        BY <2>2, <3>4, <3>5
      <4> QED BY <4>1, <4>2, <4>3, Extends
    <3>9. Stream(d, Len(script[d]))' = all
      BY <2>1, SameStream DEF all
    <3> QED BY <3>6, <3>8, <3>9
  <2>4. Open(c) => IsPrefix(out[c], Stream(c, Len(script[c])))'
    BY <2>3
  <2> QED BY <2>1, <2>2, <2>4, SendKeepsWhole
<1> QED
  BY <1>1, <1>2, <1>3

LEMMA RespondKeepsWhole == Well /\ Sessions /\ AnswersWhole /\ Respond => AnswersWhole'
<1> SUFFICES ASSUME Well, Sessions, AnswersWhole, Respond PROVE AnswersWhole'
  OBVIOUS
<1>1. CASE Kill
  BY <1>1, NothingSentWhole DEF Kill
<1>2. CASE ~ Kill
  <2> DEFINE item == Head(say)
             none == [io |-> con.io, sent |-> << >>]
             s == IF "chunked" \in con.flags THEN Push(Push(Push(none, <<"chunk">>), Units(item)), <<"crlf">>)
                  ELSE Push(none, Units(item))
  <2>1. PICK c \in Clients : c = con.sock
    BY Fields DEF Respond, Well, Shape
  <2>2. SendTo(c, s.sent) /\ script' = script /\ pc = "respond" /\ say \in Seq(Text) /\ say # << >>
    BY <1>2, <2>1 DEF Respond, MayKill, client, Well, TypeOK
  <2>3. s.sent \in Seq(Text)
    BY <2>2, FirstAndRest, Pushing DEF Well
  <2>4. Open(c) => IsPrefix(out[c], Stream(c, Len(script[c])))'
    <3> SUFFICES ASSUME Open(c) PROVE IsPrefix(out[c], Stream(c, Len(script[c])))'
      OBVIOUS
    <3>1. PICK k \in Nat \ {0} : Session(c, k)
      BY <2>1 DEF Sessions
    <3> QED BY <1>2, <2>1, <2>2, <3>1, RespondWhole DEF Session
  <2> HIDE DEF s
  <2> QED BY <2>2, <2>3, <2>4, SendKeepsWhole
<1> QED
  BY <1>1, <1>2

LEMMA EndKeepsWhole == Well /\ Sessions /\ AnswersWhole /\ End => AnswersWhole'
<1> SUFFICES ASSUME Well, Sessions, AnswersWhole, End PROVE AnswersWhole'
  OBVIOUS
<1>1. CASE Kill
  BY <1>1, NothingSentWhole DEF Kill
<1>2. CASE ~ Kill
  <2> DEFINE none == [io |-> con.io, sent |-> << >>]
             s == IF "chunked" \in con.flags THEN Push(none, <<"last">>) ELSE none
             t == s.sent \o s.io
  <2>1. PICK c \in Clients : c = con.sock
    BY Fields DEF End, Well, Shape
  <2>2. SendTo(c, t) /\ script' = script /\ pc = "respond"
    BY <1>2, <2>1 DEF End, MayKill
  <2>3. t \in Seq(Text)
    BY Ended DEF Well
  <2>4. Open(c) => IsPrefix(out[c], Stream(c, Len(script[c])))'
    <3> SUFFICES ASSUME Open(c) PROVE IsPrefix(out[c], Stream(c, Len(script[c])))'
      OBVIOUS
    <3>1. PICK k \in Nat \ {0} : Session(c, k)
      BY <2>1 DEF Sessions
    <3> QED BY <1>2, <2>1, <2>2, <3>1, EndWhole DEF Session
  <2> HIDE DEF t
  <2> QED BY <2>2, <2>3, <2>4, SendKeepsWhole
<1> QED
  BY <1>1, <1>2

LEMMA NextWhole == Well /\ Sessions /\ AnswersWhole /\ [Next]_vars => AnswersWhole'
<1> SUFFICES ASSUME Well, Sessions, AnswersWhole, [Next]_vars PROVE AnswersWhole'
  OBVIOUS
<1>1. CASE script' = script /\ out' = out
  BY <1>1, NothingSentWhole
<1>2. CASE UNCHANGED vars
  BY <1>1, <1>2 DEF vars, client
<1>3. CASE \E c \in Clients : ClientNext(c) \/ Leave(c)
  BY <1>1, <1>3 DEF ClientNext, Connect, Ask, Send, Finish, Leave
<1>4. CASE Select \/ Accept \/ Recv \/ Parse \/ Serve \/ Discard \/ After \/ Compact
  BY <1>1, <1>4 DEF Select, Accept, Recv, Parse, Serve, Discard, After, Compact, client
<1> QED
  BY <1>2, <1>3, <1>4, ContinueKeepsWhole, RespondKeepsWhole, EndKeepsWhole DEF Next, ServerNext

(***************************************************************************)
(* The inductive invariant. AnswersWhole alone is not inductive: it says   *)
(* nothing of what is buffered, or of which request is being answered.     *)
(***************************************************************************)
IInv == Well /\ Apart /\ Sessions /\ AnswersWhole

LEMMA InitIInv == Init => IInv
<1> SUFFICES ASSUME Init PROVE IInv
  OBVIOUS
<1>1. Well /\ con.sock = None /\ None \notin Clients
  BY InitWell, WebAssumption DEF Init, NoCon
<1>2. Apart
  <2>1. DOMAIN backlog = {}
    BY DEF Init
  <2> QED BY <1>1, <2>1 DEF Apart, Quiet, Queued, InBacklog, Init
<1>3. Sessions
  BY <1>1 DEF Sessions
<1>4. AnswersWhole
  <2> SUFFICES ASSUME NEW c \in Clients PROVE IsPrefix(out[c], Stream(c, Len(script[c])))
    BY DEF AnswersWhole
  <2>1. script \in Scripts /\ Len(script[c]) \in Nat /\ out[c] = << >> /\ << >> \in Seq(Text)
    BY <1>1, Fields DEF Well, TypeOK, Init
  <2>2. Stream(c, Len(script[c])) \in Seq(Text)
    BY <2>1, StreamStep
  <2>3. Len(<< >>) = 0 /\ Len(Stream(c, Len(script[c]))) \in Nat
    BY <2>2, LenProperties
  <2>4. IsPrefix(<< >>, Stream(c, Len(script[c])))
    <3> DEFINE all == Stream(c, Len(script[c]))
               x == << >>
    <3>1. x \in Seq(Text) /\ all \in Seq(Text) /\ Len(x) = 0 /\ Len(all) \in Nat
      BY <2>1, <2>2, <2>3
    <3> HIDE DEF all, x
    <3>2. Len(x) <= Len(all) /\ \A i \in 1 .. Len(x) : x[i] = all[i]
      BY <3>1
    <3>3. IsPrefix(x, all)
      BY <3>1, <3>2, PrefixItems, Zenon
    <3> QED BY <3>3 DEF x, all
  <2> QED BY <2>1, <2>4
<1> QED
  BY <1>1, <1>2, <1>3, <1>4 DEF IInv

LEMMA NextIInv == IInv /\ [Next]_vars => IInv'
<1> SUFFICES ASSUME IInv, [Next]_vars PROVE IInv'
  OBVIOUS
<1>1. Well' /\ AnswersWhole'
  BY NextWell, NextWhole DEF IInv
<1>2. CASE ServerNext
  BY <1>1, <1>2, ServerApart, ServerSessions DEF IInv
<1>3. ASSUME NEW c \in Clients, ClientNext(c) \/ Leave(c)
      PROVE  IInv'
  <2>1. Apart'
    BY <1>3, ConnectApart, ClientApart DEF IInv, ClientNext
  <2>2. Sessions'
    BY <1>3, ClientSessions DEF IInv
  <2> QED BY <1>1, <2>1, <2>2 DEF IInv
<1>4. CASE UNCHANGED vars
  <2>1. /\ con' = con /\ pc' = pc /\ say' = say /\ script' = script /\ asked' = asked
        /\ inbox' = inbox /\ rest' = rest /\ out' = out /\ phase' = phase /\ backlog' = backlog
    BY <1>4 DEF vars, client, server
  <2>2. Apart'
    BY <2>1, ApartKept DEF IInv, Apart, Queued
  <2>3. Sessions'
    BY <2>1, SessionKept DEF IInv, Sessions, Open
  <2> QED BY <1>1, <2>2, <2>3 DEF IInv
<1> QED
  BY <1>2, <1>3, <1>4 DEF Next

(***************************************************************************)
(* Every variable keeps its type, whatever clients send and wherever a     *)
(* connection breaks (web.h: wby_update and the functions it calls).       *)
(***************************************************************************)
THEOREM TypeCorrect == Spec => []TypeOK
<1>1. IInv => TypeOK
  BY DEF IInv, Well
<1> QED
  BY <1>1, InitIInv, NextIInv, PTL DEF Spec

(***************************************************************************)
(* What a client has received is the beginning of what it is to receive:   *)
(* each of its requests is answered once, in order, nothing lost or        *)
(* repeated between the answers, wherever io_buf was flushed and whatever  *)
(* the other clients do in between (wby_connection_push,                   *)
(* wby_response_begin, wby_response_end, wby_update_connection).           *)
(***************************************************************************)
THEOREM AnswersAreWhole == Spec => []AnswersWhole
<1>1. IInv => AnswersWhole
  BY DEF IInv
<1> QED
  BY <1>1, InitIInv, NextIInv, PTL DEF Spec
============================================================================
