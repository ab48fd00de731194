--------------------------------- MODULE Web --------------------------------
(***************************************************************************)
(* The small HTTP server of src/lib/web.h as test/core-fact/httpd.c runs   *)
(* it: one connection at a time, no websockets, and a dispatch that serves *)
(* one document, quits on /quit and declines everything else.  The server  *)
(* polls with select, reads heads without blocking, and answers with the   *)
(* socket switched to blocking.                                            *)
(*                                                                         *)
(* A head is a sequence of lines, the last of them standing for the empty  *)
(* line and all that was said before; a body is a sequence of blocks.      *)
(* What a response prints is a sequence of texts, one per call of          *)
(* wby_write.  The data takes several units of io_buf and every other text *)
(* one; no text is longer than the 1024 bytes wby_printf formats in.  A    *)
(* send that takes a part of what it is given is repeated with the rest    *)
(* (653-658) and counts as one.                                            *)
(***************************************************************************)
EXTENDS Naturals, FiniteSets, FiniteSetsExt, Sequences, SequencesExt

CONSTANTS
  Clients,
  Scripts,   \* the requests of each client, in order
  Leavers,   \* clients that may give up at any time
  HeadMax,   \* lines and blocks that fit in header_buf
  IoMax,     \* units that fit in io_buf
  Data,      \* the data of a response, unit by unit
  None       \* no client; WBY_INVALID_SOCKET

Request == [kind : {"end"}, uri : {"id", "quit", "other"}, lines : Nat, body : Nat,
            expect : BOOLEAN, close : BOOLEAN, upgrade : BOOLEAN, valid : BOOLEAN]

ASSUME WebAssumption ==
  /\ None \notin Clients /\ Leavers \subseteq Clients
  /\ Scripts \subseteq [Clients -> Seq(Request)]
  /\ HeadMax \in Nat \ {0} /\ IoMax \in Nat \ {0} /\ Data \in Seq(STRING) \ {<< >>}

VARIABLES
  script,   \* what each client is going to ask
  phase,    \* of each client: "idle", "queued", "open", "fin", "reset", "closed"
  asked,    \* requests it has begun to send
  rest,     \* what it has still to send of the last one
  inbox,    \* what the server's kernel holds for the server
  out,      \* what the client has received
  backlog,  \* connections not accepted yet
  pc,       \* the server: "select", "accept", "recv", "parse", "continue",
            \* "serve", "discard", "respond", "after", "compact",
            \* "stopped", or "killed" by SIGPIPE
  con,      \* the connection, see NoCon
  say,      \* what the handler has still to print
  quit      \* state->quit

client == <<script, phase, asked, rest>>
server == <<pc, con, say, quit>>
vars == <<client, inbox, out, backlog, server>>

Line == [kind |-> "line"]
Block == [kind |-> "block"]
NoRequest == [kind |-> "none", body |-> 0, upgrade |-> FALSE, close |-> FALSE]
Wire(r) == [n \in 1 .. r.lines |-> Line] \o <<r>> \o [n \in 1 .. r.body |-> Block]

(***************************************************************************)
(* used: con_count = 1.  left: header_body_left.  read: body_bytes_read.   *)
(* depth: blocking_count.  blocks: the mode of the socket itself.          *)
(***************************************************************************)
NoCon == [used |-> FALSE, sock |-> None, flags |-> {}, head |-> << >>, req |-> NoRequest,
          left |-> 0, read |-> 0, io |-> << >>, depth |-> 0, blocks |-> FALSE]

Alive == "alive" \in con.flags
Die == con' = [con EXCEPT !.flags = @ \ {"alive"}]
Goto(l) == pc' = l

----------------------------------------------------------------------------
(* What the handlers print. *)

Closing(r) == IF r.close THEN <<"close">> ELSE << >>
Header(r) ==
  CASE r.upgrade                    -> <<"400", "chunked", "server", "type">>
    [] ~ r.upgrade /\ r.uri = "id"    -> <<"200", "length", "server">>
    [] ~ r.upgrade /\ r.uri = "quit"  -> <<"200", "chunked", "server">>
    [] ~ r.upgrade /\ r.uri = "other" -> <<"404", "chunked", "server", "type">>
IsChunked(r) == r.upgrade \/ r.uri # "id"
Printed(r) == Header(r) \o Closing(r) \o <<"blank", "data">>
Units(text) == IF text = "data" THEN Data ELSE <<text>>

(* response_end closes when the request had no body. *)
EndsIt(r) == r.body = 0 /\ ~ r.upgrade

----------------------------------------------------------------------------
(* What a client is to receive: for each request, in order, the head, the  *)
(* body in its framing and the end, up to the first that ends the          *)
(* connection; nothing for a head that is too long or makes no sense.      *)

Answer(r) ==
  IF ~ r.valid \/ r.lines >= HeadMax THEN << >>
  ELSE (IF r.expect THEN <<"continue">> ELSE << >>)
       \o Header(r) \o Closing(r) \o <<"blank">>
       \o (IF IsChunked(r) THEN <<"chunk">> \o Data \o <<"crlf", "last">> ELSE Data)

Refused(r) == ~ r.valid \/ r.lines >= HeadMax
IsLast(c, k) == Refused(script[c][k]) \/ script[c][k].close \/ EndsIt(script[c][k])
AnswerTo(c, k) ==
  IF k \in DOMAIN script[c] /\ \A m \in 1 .. (k - 1) : ~ IsLast(c, m)
  THEN Answer(script[c][k]) ELSE << >>

\* The pieces 1, 2, ... joined, for each number of them.
Joined(pieces) ==
  LET joined[n \in Nat] == IF n = 0 THEN << >> ELSE joined[n - 1] \o pieces[n]
  IN  joined
Stream(c, k) == Joined([n \in Nat |-> AnswerTo(c, n)])[k]

Init ==
  /\ script \in Scripts
  /\ phase = [c \in Clients |-> "idle"]
  /\ asked = [c \in Clients |-> 0]
  /\ rest = [c \in Clients |-> << >>]
  /\ inbox = [c \in Clients |-> << >>]
  /\ out = [c \in Clients |-> << >>]
  /\ backlog = << >>
  /\ pc = "select" /\ con = NoCon /\ say = << >> /\ quit = FALSE

----------------------------------------------------------------------------
(* The clients. *)

Running == pc \notin {"stopped", "killed"}

Connect(c) ==
  /\ phase[c] = "idle" /\ Running
  /\ phase' = [phase EXCEPT ![c] = "open"]
  /\ backlog' = Append(backlog, c)
  /\ UNCHANGED <<script, asked, rest, inbox, out, server>>

\* The next request, once the last one has been answered.
Ask(c) ==
  /\ phase[c] = "open" /\ rest[c] = << >> /\ asked[c] < Len(script[c])
  /\ out[c] = Stream(c, asked[c])
  /\ asked' = [asked EXCEPT ![c] = @ + 1]
  /\ rest' = [rest EXCEPT ![c] = Wire(script[c][asked'[c]])]
  /\ UNCHANGED <<script, phase, inbox, out, backlog, server>>

\* A client that expects 100 Continue waits for it before the body.
Send(c) ==
  /\ phase[c] = "open" /\ rest[c] # << >>
  /\ (Head(rest[c]) = Block /\ script[c][asked[c]].expect)
       => out[c] = Append(Stream(c, asked[c] - 1), "continue")
  /\ inbox' = [inbox EXCEPT ![c] = Append(@, Head(rest[c]))]
  /\ rest' = [rest EXCEPT ![c] = Tail(@)]
  /\ UNCHANGED <<script, phase, asked, out, backlog, server>>

\* With all its answers a client closes.
Finish(c) ==
  /\ phase[c] = "open" /\ asked[c] = Len(script[c]) /\ out[c] = Stream(c, asked[c])
  /\ rest[c] = << >>
  /\ phase' = [phase EXCEPT ![c] = "fin"]
  /\ UNCHANGED <<script, asked, rest, inbox, out, backlog, server>>

\* It ends or aborts the connection; what it sent before is still read.
Leave(c) ==
  /\ c \in Leavers /\ phase[c] = "open"
  /\ \E p \in {"fin", "reset"} : phase' = [phase EXCEPT ![c] = p]
  /\ UNCHANGED <<script, asked, rest, inbox, out, backlog, server>>

----------------------------------------------------------------------------
(* The server.  A send reaches a client that is there; to one that is gone *)
(* it is lost, or answered by SIGPIPE, which nothing ignores.              *)

Kill ==
  /\ Goto("killed")
  /\ phase' = [c \in Clients |-> "closed"]
  /\ UNCHANGED <<script, asked, rest, inbox, out, backlog, con, say, quit>>

SendTo(c, items) ==
  out' = IF items = << >> \/ c = None THEN out
         ELSE IF phase[c] # "open" THEN out
         ELSE [out EXCEPT ![c] = @ \o items]
MayKill(c, items) ==
  items # << >> /\ c # None /\ (c # None => phase[c] \in {"fin", "reset"}) /\ Kill

CloseCon(s) == [s EXCEPT !.sock = None, !.flags = {}]
Closed(c) == IF c = None THEN phase ELSE [phase EXCEPT ![c] = "closed"]

\* wby_update: select, and what is ready.  A fresh connection needs no select.
Select ==
  /\ pc = "select"
  /\ \/ ~ con.used /\ backlog # << >> /\ Goto("accept")
     \/ con.used /\ (inbox[con.sock] # << >> \/ phase[con.sock] # "open") /\ Goto("recv")
  /\ UNCHANGED <<client, inbox, out, backlog, con, say, quit>>

\* wby_on_incoming, for the only slot; the connection is served at once.
Accept ==
  /\ pc = "accept"
  /\ con' = [NoCon EXCEPT !.used = TRUE, !.sock = Head(backlog), !.flags = {"alive"}]
  /\ backlog' = Tail(backlog)
  /\ Goto("recv")
  /\ UNCHANGED <<client, inbox, out, say, quit>>

\* wby_socket_recv: until the buffer is full, the socket is empty, or its end.
Recv ==
  LET c == con.sock
      n == Min({HeadMax - Len(con.head), Len(inbox[c])})
  IN  /\ pc = "recv"
      /\ \/ /\ n > 0
            /\ con' = [con EXCEPT !.head = @ \o SubSeq(inbox[c], 1, n)]
            /\ inbox' = [inbox EXCEPT ![c] = SubSeq(@, n + 1, Len(@))]
            /\ UNCHANGED pc
         \/ /\ n = 0 /\ Len(con.head) < HeadMax /\ phase[c] # "open"
            /\ Die /\ Goto("compact") /\ UNCHANGED inbox
         \/ /\ n = 0 /\ (Len(con.head) = HeadMax \/ (phase[c] = "open" /\ ~ con.blocks))
            /\ Goto("parse") /\ UNCHANGED <<con, inbox>>
      /\ UNCHANGED <<client, out, backlog, say, quit>>

\* wb_peek_request_size, then wby_connection_setup_request.
PeekRequest(head) == {n \in DOMAIN head : head[n].kind = "end"}
Setup(r, size) == [con EXCEPT !.req = r, !.left = Len(con.head) - size]
Parse ==
  LET ends == PeekRequest(con.head)
      at == Min(ends)
  IN  /\ pc = "parse"
      /\ \/ /\ ends = {}
            /\ IF Len(con.head) = HeadMax THEN Die ELSE UNCHANGED con
            /\ Goto("compact")
         \/ /\ ends # {} /\ ~ con.head[at].valid
            /\ Die /\ Goto("compact")
         \/ /\ ends # {} /\ con.head[at].valid
            /\ con' = Setup(con.head[at], at)
            /\ Goto(IF con.head[at].expect THEN "continue" ELSE "serve")
      /\ UNCHANGED <<client, inbox, out, backlog, say, quit>>

Continue ==
  /\ pc = "continue"
  /\ \/ /\ SendTo(con.sock, <<"continue">>) /\ Goto("serve")
        /\ UNCHANGED <<client, inbox, backlog, con, say, quit>>
     \/ /\ phase[con.sock] = "reset" /\ Die /\ Goto("compact")
        /\ UNCHANGED <<client, inbox, out, backlog, say, quit>>
     \/ MayKill(con.sock, <<"continue">>)

SetBlocking(s) == [s EXCEPT !.depth = @ + 1, !.blocks = TRUE]
\* Mutant of SetNonblocking: a kept connection's socket stays blocking.
StaysBlocking(s) == [s EXCEPT !.depth = @ - 1]

SetNonblocking(s) ==
  [s EXCEPT !.depth = @ - 1, !.blocks = IF "alive" \in s.flags /\ s.depth = 1 THEN FALSE ELSE @]
Reset(s) ==
  [s EXCEPT !.head = << >>, !.io = << >>, !.left = 0, !.read = 0, !.depth = 0]

\* The mode of a closed socket cannot be switched, which ends the loop.
Serve ==
  /\ pc = "serve"
  /\ IF con.depth = 0 /\ con.sock = None
     THEN /\ con' = [con EXCEPT !.io = << >>, !.flags = @ \ {"alive"}]
          /\ Goto("compact")
     ELSE /\ con' = SetBlocking([con EXCEPT !.io = << >>])
          /\ Goto("discard")
  /\ UNCHANGED <<client, inbox, out, backlog, say, quit>>

ReadBuffered(s, need) ==
  LET n == Min({need, s.left}) IN [s EXCEPT !.left = @ - n, !.read = @ + n]

(***************************************************************************)
(* wby_response_begin reads what the handler left of the body: first what  *)
(* came with the head.  wby_read does not notice the end of the stream and *)
(* asks for more of it for ever.  After an error the head is not printed.  *)
(***************************************************************************)
Discard ==
  LET c == con.sock
      need == con.req.body - con.read
      n == Min({need, Len(inbox[c])})
  IN  /\ pc = "discard"
      /\ \/ /\ need > 0 /\ con.left > 0
            /\ con' = ReadBuffered(con, need)
            /\ UNCHANGED <<phase, inbox, pc, say>>
         \/ /\ need > 0 /\ con.left = 0 /\ n > 0
            /\ con' = [con EXCEPT !.read = @ + n]
            /\ inbox' = [inbox EXCEPT ![c] = SubSeq(@, n + 1, Len(@))]
            /\ UNCHANGED <<phase, pc, say>>
         \/ /\ need > 0 /\ con.left = 0 /\ n = 0 /\ phase[c] = "reset"
            /\ Die /\ say' = <<"data">> /\ Goto("respond")
            /\ phase' = [phase EXCEPT ![c] = "fin"]
            /\ UNCHANGED inbox
         \/ /\ need = 0
            /\ con' = [con EXCEPT !.flags = @ \cup (IF con.req.close THEN {"close"} ELSE {})]
            /\ say' = Printed(con.req) /\ Goto("respond")
            /\ UNCHANGED <<phase, inbox>>
      /\ UNCHANGED <<script, asked, rest, out, backlog, quit>>

\* Mutant of Push: what follows a flush begins with the text again.
PushAgain(s, units) ==
  LET all == s.io \o units
      over == Len(all) - IoMax
  IN  IF over < 0 THEN [s EXCEPT !.io = all]
      ELSE [io |-> SubSeq(units, 1, over), sent |-> s.sent \o SubSeq(all, 1, IoMax)]

\* wby_connection_push: what does not fit follows a flush, into the buffer or,
\* when it would fill that again, to the socket.
Push(s, units) ==
  LET all == s.io \o units
      over == Len(all) - IoMax
  IN  IF over < 0 THEN [s EXCEPT !.io = all]
      ELSE IF over >= IoMax THEN [io |-> << >>, sent |-> s.sent \o all]
      ELSE [io |-> SubSeq(all, IoMax + 1, Len(all)), sent |-> s.sent \o SubSeq(all, 1, IoMax)]

\* wby_write; the chunked framing starts behind the empty line.
Respond ==
  LET item == Head(say)
      none == [io |-> con.io, sent |-> << >>]
      s == IF "chunked" \in con.flags THEN Push(Push(Push(none, <<"chunk">>), Units(item)), <<"crlf">>)
           ELSE Push(none, Units(item))
  IN  /\ pc = "respond" /\ say # << >>
      /\ \/ /\ SendTo(con.sock, s.sent)
            /\ con' = [con EXCEPT !.io = s.io,
                         !.flags = @ \cup (IF item = "blank" /\ IsChunked(con.req)
                                           THEN {"chunked"} ELSE {})]
            /\ say' = Tail(say)
            /\ UNCHANGED <<client, inbox, backlog, pc, quit>>
         \/ MayKill(con.sock, s.sent)

\* wby_response_end, and state->quit.
End ==
  LET s == IF "chunked" \in con.flags THEN Push([io |-> con.io, sent |-> << >>], <<"last">>)
           ELSE [io |-> con.io, sent |-> << >>]
      closes == EndsIt(con.req)
  IN  /\ pc = "respond" /\ say = << >>
      /\ \/ /\ SendTo(con.sock, s.sent \o s.io)
            /\ phase' = IF closes THEN Closed(con.sock) ELSE phase
            /\ con' = IF closes THEN CloseCon([con EXCEPT !.io = << >>])
                      ELSE [con EXCEPT !.io = << >>, !.flags = @ \ {"chunked"}]
            /\ quit' = (quit \/ (con.req.uri = "quit" /\ ~ con.req.upgrade))
            /\ Goto("after")
            /\ UNCHANGED <<script, asked, rest, inbox, backlog, say>>
         \/ MayKill(con.sock, s.sent \o s.io)

(***************************************************************************)
(* Back to polling, and on to the next request: without ALIVE the loop     *)
(* serves the same request again.                                          *)
(***************************************************************************)
After ==
  LET s == SetNonblocking(con)
  IN  /\ pc = "after"
      /\ \/ /\ Alive /\ "close" \in con.flags
            /\ con' = [s EXCEPT !.flags = @ \ {"alive"}]
            /\ Goto("compact")
         \/ /\ Alive /\ "close" \notin con.flags
            /\ con' = Reset(s) /\ Goto("recv")
         \/ ~ Alive /\ con' = s /\ Goto("serve")
      /\ UNCHANGED <<client, inbox, out, backlog, say, quit>>

Stop == phase' = [c \in Clients |-> "closed"] /\ Goto("stopped")

\* The end of wby_update, the loop of main, and wby_stop.
Compact ==
  /\ pc = "compact"
  /\ con' = IF Alive THEN con ELSE NoCon
  /\ IF quit THEN Stop
     ELSE phase' = (IF Alive THEN phase ELSE Closed(con.sock)) /\ Goto("select")
  /\ UNCHANGED <<script, asked, rest, inbox, out, backlog, say, quit>>

ClientNext(c) == Connect(c) \/ Ask(c) \/ Send(c) \/ Finish(c)
ServerNext ==
  \/ Select \/ Accept \/ Recv \/ Parse \/ Continue \/ Serve
  \/ Discard \/ Respond \/ End \/ After \/ Compact
Next == ServerNext \/ \E c \in Clients : ClientNext(c) \/ Leave(c)

Spec == Init /\ [][Next]_vars

\* Both ends of a connection go on; nobody has to leave.
FairSpec == Spec /\ WF_vars(ServerNext) /\ \A c \in Clients : WF_vars(ClientNext(c))

----------------------------------------------------------------------------
(***************************************************************************)
(* What a client has received is the beginning of what it is to receive:   *)
(* each request is answered at most once, in order and with nothing lost   *)
(* or repeated in between, whatever is buffered where when the body, the   *)
(* flushes and other clients come in between (web.h 1176, 1472, 1788).     *)
(***************************************************************************)
AnswersWhole ==
  \A c \in Clients : IsPrefix(out[c], Stream(c, Len(script[c])))

(* wby_read asks for more of a stream that has ended.                      *)
Spins == pc = "discard" /\ con.sock # None /\ con.read + con.left < con.req.body
         /\ phase[con.sock] = "fin" /\ inbox[con.sock] = << >>

(***************************************************************************)
(* A client that stays is answered in full, unless the server was asked to *)
(* quit, was killed by SIGPIPE, or spins in wby_read because another       *)
(* client ended its stream within a body (web.h 1344, 1936).               *)
(***************************************************************************)
Served ==
  \A c \in Clients \ Leavers :
    <>(out[c] = Stream(c, Len(script[c])) \/ ~ Running \/ Spins)
=============================================================================
