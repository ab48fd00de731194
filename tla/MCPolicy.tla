------------------------------- MODULE MCPolicy ------------------------------
(***************************************************************************)
(* The two halves of cli.main, each over its own instances: the loader on  *)
(* a policy with an include and handlers, naming two roles, one of which   *)
(* has no main.lua; and the sort, on every queue of at most two promises   *)
(* over two names, of three promises with three names or with one name     *)
(* shared by two of them, of four promises of one name, of two promises    *)
(* that may have a require or before that is no Lua, and on the two        *)
(* queues of the repository's own test of the order.                       *)
(***************************************************************************)
EXTENDS Dag

CONSTANTS f, g, h, NoTag, NoFile, Unset

VARIABLES half, pc, scripts, at, line, env, queue, hsource, roles

P(res, req, bef) == [res |-> res, req |-> req, bef |-> bef]

Named(res, names) ==
  {[k \in DOMAIN res |-> P(res[k], req[k], bef[k])] :
     req \in [DOMAIN res -> names \cup {NoName}],
     bef \in [DOMAIN res -> names \cup {NoName}]}

SmallPolicies ==
  UNION {Named(res, {f, g}) : res \in {<< >>, <<f>>, <<f, g>>, <<f, f>>,
                                      <<f, g, f>>, <<f, f, g>>}}
    \cup Named(<<f, g, h>>, {f, g, h}) \cup Named(<<f, f, f, f>>, {f})
    \cup Named(<<f, g>>, {f, g, BadName})

----------------------------------------------------------------------------
(***************************************************************************)
(* The policies of the repository's own test of the order: test/           *)
(* core-require.lua and core-require-nodeps.lua.                           *)
(***************************************************************************)
CoreRequire ==
  << P("absent core-require", "touch core-require", "touch nodeps"),
     P("touch core-require", "touch first", "touch nodeps"),
     P("touch first", "absent FIRST", NoName),
     P("absent FIRST", NoName, "absent nodeps"),
     P("touch last", "absent nodeps", "absent last"),
     P("absent last", "absent nodeps", NoName),
     P("touch nodeps", NoName, "absent nodeps"),
     P("absent nodeps", NoName, NoName) >>

CoreRequireNodeps ==
  << P("touch nodeps", NoName, NoName), P("touch last", NoName, NoName),
     P("touch nodeps", NoName, NoName), P("touch last", NoName, NoName) >>

TestPolicies == {CoreRequire, CoreRequireNodeps}

MCNodes == 1..8
MCNames == {f, g, h} \cup {CoreRequire[k].res : k \in 1..8}
MCPolicies == SmallPolicies \cup TestPolicies

----------------------------------------------------------------------------
Declaration(tag, context, named) ==
  [kind |-> "promise", tag |-> tag, context |-> context, named |-> named]
Says(tag) == Declaration(tag, "absent", TRUE)
Naming(names) == [kind |-> "roles", roles |-> names]
Setting(value) == [kind |-> "assign", value |-> value]

MCFiles == {"main", "embedded", "attr", "incl1", "incl2", "hand",
            "rmain", "rattr", "rincl", "rhand"}
MCRoles == {"web", "none"}
MCTags == {"t", "u"}
MCValues == {"site", "main", "role"}

MCText ==
  [file \in MCFiles |->
     CASE file = "main"     -> <<Says(NoTag), Naming(<<"web", "none">>), Says("t"), Says(NoTag)>>
       [] file = "embedded" -> <<Declaration(NoTag, "other", TRUE), Says("u")>>
       [] file = "attr"     -> <<Setting("site")>>
       [] file = "incl1"    -> <<Says(NoTag), Declaration(NoTag, "true", FALSE)>>
       [] file = "incl2"    -> <<Declaration(NoTag, "true", TRUE), Says("t")>>
       [] file = "hand"     -> <<Says("t"), Says("u")>>
       [] file = "rmain"    -> <<Says(NoTag), Setting("main")>>
       [] file = "rattr"    -> <<Setting("role")>>
       [] file = "rincl"    -> <<Says(NoTag), Naming(<<"web">>)>>
       [] file = "rhand"    -> <<Says("t")>>]

Section(a, i, t) == [attributes |-> a, includes |-> i, handlers |-> t]
MCEmbedded == Section({}, {"embedded"}, {})
MCTree == Section({"attr"}, {"incl1", "incl2"}, {"hand"})
MCRoleMain == [r \in MCRoles |-> IF r = "web" THEN "rmain" ELSE NoFile]
MCRoleTree == [r \in MCRoles |-> Section({"rattr"}, {"rincl"}, {"rhand"})]

L == INSTANCE Loader WITH
       Files <- MCFiles, Roles <- MCRoles, Tags <- MCTags, Main <- "main", Text <- MCText,
       Embedded <- MCEmbedded, Tree <- MCTree, RoleMain <- MCRoleMain, RoleTree <- MCRoleTree,
       Values <- MCValues, source <- queue
ASSUME LoaderConstants == L!LoaderAssumption

(***************************************************************************)
(* Either half runs; the other one stays where it began.                   *)
(***************************************************************************)
MCInit ==
  /\ Init /\ L!Init
  /\ half \in {"load", "sort"}
  /\ half = "load" => source = << >>

loading == <<pc, scripts, at, line, env, queue, hsource, roles>>

Load == half = "load" /\ L!Next /\ UNCHANGED <<half, vars>>
Order == half = "sort" /\ Next /\ UNCHANGED <<half, loading>>

MCSpec == MCInit /\ [][Load \/ Order]_<<half, vars, loading>>

\* No promise of a script is lost, doubled or misplaced, and includes and
\* handlers see what their own attributes set (cli.lua 131-177, std.lua 31-57).
QueuedAsWritten == L!EachPromiseQueued /\ L!AttributesFirst
=============================================================================
