------------------------------- MODULE Loader ------------------------------
(***************************************************************************)
(* cli.main up to the graph: which scripts make up a policy, and how the   *)
(* promises they declare reach the main queue and the handler queues.      *)
(*                                                                         *)
(* The main script is run twice.  The first time only the roles it names   *)
(* are kept; then the directories of the policy and of those roles are     *)
(* listed, and every script of the list is run, the main one first, in one *)
(* environment: a variable one script sets is seen by those after it.      *)
(***************************************************************************)
EXTENDS Naturals, Sequences, SequencesExt

CONSTANTS
  Files, Roles, Tags, NoTag,
  Main,       \* the script of -f or -e
  NoFile,     \* a role without a main.lua
  Text,       \* the statements of each file
  Embedded,   \* -e: the attributes, includes and handlers in the binary
  Tree,       \* the attributes, includes and handlers beside the policy
  RoleMain,   \* the main.lua of each role
  RoleTree,   \* the attributes, includes and handlers of each role
  Values,     \* what a script may assign to the variable
  Unset       \* its value before any assignment

(***************************************************************************)
(* A statement declares a promise, names roles, or assigns the variable.   *)
(***************************************************************************)
Promise(tag, context, named) ==
  [kind |-> "promise", tag |-> tag, context |-> context, named |-> named]
Assign(value) == [kind |-> "assign", value |-> value]

Sections == [{"attributes", "includes", "handlers"} -> SUBSET Files]

LoaderAssumption ==
  /\ NoTag \notin Tags
  /\ Main \in Files /\ NoFile \notin Files
  /\ Embedded \in Sections /\ Tree \in Sections
  /\ RoleMain \in [Roles -> Files \cup {NoFile}]
  /\ RoleTree \in [Roles -> Sections]

VARIABLES
  pc,       \* "embed", "probe", "dirs", "roles", "queue", "ready", "panic"
  scripts,  \* the list of scripts
  at,       \* position in scripts, or in roles while they are listed
  line,     \* statement to run next
  env,      \* the variable of the script environment
  source,   \* main queue: <<file, line, value of the variable>>
  hsource,  \* handler queue of each tag
  roles     \* roles named so far

vars == <<pc, scripts, at, line, env, source, hsource, roles>>

Queued == Seq(Files \X Nat \X (Values \cup {Unset}))

Init ==
  /\ pc = "embed"
  /\ scripts = <<Main>>
  /\ at = 1
  /\ line = 1
  /\ env = Unset
  /\ source = << >>
  /\ hsource = [t \in Tags |-> << >>]
  /\ roles = << >>

----------------------------------------------------------------------------
\* Mutant of Listings: the attributes are read last.
ListingsAttributesLast(s) ==
  {i \o h \o a : a \in SetToSeqs(s["attributes"]), i \in SetToSeqs(s["includes"]),
                 h \in SetToSeqs(s["handlers"])}

\* std.add_from_dirs: section by section, each in whatever order it is read.
Listings(s) ==
  {a \o i \o h : a \in SetToSeqs(s["attributes"]), i \in SetToSeqs(s["includes"]),
                 h \in SetToSeqs(s["handlers"])}

AddEmbedded ==
  /\ pc = "embed"
  /\ \E l \in Listings(Embedded) : scripts' = scripts \o l
  /\ pc' = "probe"
  /\ UNCHANGED <<at, line, env, source, hsource, roles>>

Running == IF pc = "queue" /\ at <= Len(scripts) THEN scripts[at] ELSE Main
InScript == pc = "probe" \/ (pc = "queue" /\ at <= Len(scripts))

\* The promise is kept if its context holds and its subject is a string.
Kept(s) == s.named /\ s.context \in {"true", "absent"}

Declare ==
  /\ InScript
  /\ line <= Len(Text[Running])
  /\ LET s == Text[Running][line]
         entry == <<Running, line, env>>
     IN  \/ /\ s.kind = "promise" /\ Kept(s) /\ s.tag = NoTag
            /\ source' = Append(source, entry)
            /\ UNCHANGED <<env, hsource, roles>>
         \/ /\ s.kind = "promise" /\ Kept(s) /\ s.tag # NoTag
            /\ hsource' = [hsource EXCEPT ![s.tag] = Append(@, entry)]
            /\ UNCHANGED <<env, source, roles>>
         \/ /\ s.kind = "promise" /\ ~ Kept(s)
            /\ UNCHANGED <<env, source, hsource, roles>>
         \/ /\ s.kind = "roles"
            /\ roles' = roles \o s.roles
            /\ UNCHANGED <<env, source, hsource>>
         \/ /\ s.kind = "assign"
            /\ env' = s.value
            /\ UNCHANGED <<source, hsource, roles>>
  /\ line' = line + 1
  /\ UNCHANGED <<pc, scripts, at>>

\* A script that is missing, does not parse or fails.
Panic ==
  /\ InScript
  /\ pc' = "panic"
  /\ UNCHANGED <<scripts, at, line, env, source, hsource, roles>>

\* The end of the first run of the main script.
EndProbe ==
  /\ pc = "probe"
  /\ line > Len(Text[Main])
  /\ pc' = "dirs"
  /\ UNCHANGED <<scripts, at, line, env, source, hsource, roles>>

AddDirs ==
  /\ pc = "dirs"
  /\ \E l \in Listings(Tree) : scripts' = scripts \o l
  /\ pc' = "roles"
  /\ UNCHANGED <<at, line, env, source, hsource, roles>>

\* std.add_from_role: nothing is taken from a role without a main.lua.
AddRole ==
  /\ pc = "roles"
  /\ at <= Len(roles)
  /\ LET r == roles[at]
     IN  IF RoleMain[r] = NoFile THEN UNCHANGED scripts
         ELSE \E l \in Listings(RoleTree[r]) :
                scripts' = Append(scripts, RoleMain[r]) \o l
  /\ at' = at + 1
  /\ UNCHANGED <<pc, line, env, source, hsource, roles>>

\* Mutant of StartQueue: what the first run declared is not thrown away.
StartQueueKeepsProbe ==
  /\ pc = "roles"
  /\ at > Len(roles)
  /\ at' = 1
  /\ line' = 1
  /\ pc' = "queue"
  /\ UNCHANGED <<scripts, env, source, hsource, roles>>

\* `source, hsource = {}, {}': the run of the scripts begins.
StartQueue ==
  /\ pc = "roles"
  /\ at > Len(roles)
  /\ source' = << >>
  /\ hsource' = [t \in Tags |-> << >>]
  /\ at' = 1
  /\ line' = 1
  /\ pc' = "queue"
  /\ UNCHANGED <<scripts, env, roles>>

(***************************************************************************)
(* A script has run.  Both queues are replaced by copies, entry by entry,  *)
(* so that what was queued and what the script added stay in order.        *)
(***************************************************************************)
EndScript ==
  /\ pc = "queue"
  /\ at <= Len(scripts)
  /\ line > Len(Text[Running])
  /\ source' = [k \in DOMAIN source |-> source[k]]
  /\ hsource' = [t \in Tags |-> [k \in DOMAIN hsource[t] |-> hsource[t][k]]]
  /\ at' = at + 1
  /\ line' = 1
  /\ UNCHANGED <<pc, scripts, env, roles>>

Ready ==
  /\ pc = "queue"
  /\ at > Len(scripts)
  /\ pc' = "ready"
  /\ UNCHANGED <<scripts, at, line, env, source, hsource, roles>>

Terminated == pc \in {"ready", "panic"} /\ UNCHANGED vars

Next ==
  \/ AddEmbedded \/ Declare \/ Panic \/ EndProbe \/ AddDirs \/ AddRole
  \/ StartQueue \/ EndScript \/ Ready \/ Terminated

Spec == Init /\ [][Next]_vars

----------------------------------------------------------------------------
TypeOK ==
  /\ pc \in {"embed", "probe", "dirs", "roles", "queue", "ready", "panic"}
  /\ scripts \in Seq(Files)
  /\ at \in 1..(1 + Len(scripts) + Len(roles))
  /\ line \in Nat \ {0}
  /\ env \in Values \cup {Unset}
  /\ source \in Queued
  /\ hsource \in [Tags -> Queued]
  /\ roles \in Seq(Roles)

\* The lines of a file that declare a promise kept for the given queue.
Declares(file, t) ==
  LET Wanted(l) == LET s == Text[file][l]
                   IN  s.kind = "promise" /\ Kept(s) /\ s.tag = t
      lines == SelectSeq([l \in DOMAIN Text[file] |-> l], Wanted)
  IN  [k \in DOMAIN lines |-> <<file, lines[k]>>]

Places(queue) == [k \in DOMAIN queue |-> <<queue[k][1], queue[k][2]>>]

(***************************************************************************)
(* When the policy is ready each queue holds what its scripts declare, in  *)
(* the order of the scripts and of their lines: nothing of the first run   *)
(* of the main script is left over, nothing is lost or doubled by the      *)
(* copies made after each script (cli.lua 145-173).                        *)
(***************************************************************************)
EachPromiseQueued ==
  pc = "ready" =>
    \A t \in Tags \cup {NoTag} :
      Places(IF t = NoTag THEN source ELSE hsource[t]) =
        FlattenSeq([k \in DOMAIN scripts |-> Declares(scripts[k], t)])

\* The values a file may give the variable.
Assigned(file) ==
  {s.value : s \in {q \in ToSet(Text[file]) : q.kind = "assign"}}

(***************************************************************************)
(* The includes and the handlers of the policy and of each role see the    *)
(* variable as its own attributes set it, even when an earlier script had  *)
(* set it, unless they assign it themselves (std.lua 31-57: attributes are *)
(* listed first, and a role's scripts stand together).                     *)
(***************************************************************************)
AttributesFirst ==
  pc = "ready" =>
    \A s \in {Tree} \cup {RoleTree[r] : r \in {q \in Roles : RoleMain[q] # NoFile}} :
      LET given == UNION {Assigned(f) : f \in s["attributes"]}
          users == s["includes"] \cup s["handlers"]
          all == ToSet(source) \cup UNION {ToSet(hsource[t]) : t \in Tags}
      IN  given # {} /\ UNION {Assigned(f) : f \in users} = {}
            => \A e \in all : e[1] \in users => e[3] \in given
=============================================================================
