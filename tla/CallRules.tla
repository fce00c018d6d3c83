----------------------------- MODULE CallRules -----------------------------
(***************************************************************************)
(* What becomes of one request, from the credential it comes with to the   *)
(* account it reaches a backend by: the headers the gate forwards          *)
(* (_bearer_gate), the panel's and the reader's limits, invoke_tool, the   *)
(* names (route, alias_route), the rules of access, the person or the      *)
(* service the call is made as (_call_tool_body, _read_ui_resource), and   *)
(* the two ways to a REST site (_rest_call, RestProxy.handle).             *)
(*                                                                         *)
(* A step is a stage of one request; the tables do not change meanwhile    *)
(* (Catalog and Access have them change).                                  *)
(***************************************************************************)
EXTENDS AccessRules

CONSTANTS
    Backends, Sites,  \* Targets
    Connected,  \* PORTAL_CONN_BACKENDS: called by the token the person registered
    Declared,   \* those of them that the portal declares: no account of the service
    Identity,   \* IDENTITY_FWD
    Tools,      \* the tools of the backends: <<backend, name>>
    Reads,      \* those known to read only (READ_TOOLS, readOnlyHint)
    Front, Back,\* names that begin or end like a destructive tool (_INVOKE_DENY_PREFIX, _SUFFIX)
    Exact,      \* _INVOKE_DENY_EXACT
    Tasks,      \* _PANEL_DENY_EXACT
    Staging, Siblings, Core, Area, \* apps under test, copies of an app, the readers of its
                \* original (_CORE_VOCAB), and the tools of the areas a bundle shows
    PerUser, Inject, Opened, \* sites called in the person's name, with a key of the service,
                \* and with methods given in the configuration
    Creds,      \* the credentials considered
    Worlds      \* the states of the tables considered

(* The gateway's own tools: invoke_tool, those that read, those that write *)
(* and the bridge.  The tools of figures exist only if they are on.        *)
FigRead == {"figure_list"}
FigWrite == {"figure_to_report"}
LocalRead == {"search_tools"}
LocalWrite == {"save_conversation", "routine_call"}
Plain == LocalRead \cup LocalWrite \cup {"invoke_tool", "rest_call"}

Names == {<<NONE, t>> : t \in Plain \cup FigRead \cup FigWrite \cup {p[2] : p \in Tools}} \cup Tools
Methods == {"GET", "POST"}
Marks == {"purpose", "aud", "jti", "panel"}

(* Credentials: GW_TOKEN, or a PAT with its groups, what the portal says,  *)
(* whether it has an email, its scopes, its purpose, its marks of a panel  *)
(* and whether they fit together; and the headers the client adds.  What   *)
(* is only in a PAT, GW_TOKEN does not have.                               *)
ASSUME CallAssumption ==
    /\ Backends \cup Sites = Targets /\ Connected \subseteq Backends /\ Declared \subseteq Connected
    /\ Identity \subseteq Backends /\ Connected \cap Delegated = {} /\ Identity \cap (Connected \cup Delegated) = {}
    /\ \A p \in Tools : p[1] \in Backends
    /\ NONE \notin Tools \cup {"own", "other"}
    /\ Reads \subseteq Tools /\ Core \subseteq Tools /\ Area \subseteq Tools
    /\ Staging \cup Siblings \subseteq Backends /\ PerUser \cup Inject \cup Opened \subseteq Sites
    /\ \A c \in Creds :
        /\ c.kind \in {"gw", "pat"} /\ c.groups \subseteq Groups /\ c.ent \in (SUBSET Rights) \cup {NONE}
        /\ c.email \in BOOLEAN /\ c.reader \in BOOLEAN /\ c.procedure \in BOOLEAN
        /\ c.marks \subseteq Marks /\ c.fits \in BOOLEAN /\ c.app \in Backends
        /\ c.added \subseteq {"purpose", "user"}
        /\ c.kind = "gw" => ~c.email /\ ~c.reader /\ ~c.procedure /\ c.marks = {}
    /\ \A w \in Worlds :
        /\ w.bare \subseteq Tools /\ w.fig \in BOOLEAN /\ w.ready \in BOOLEAN
        /\ w.shut \subseteq Declared /\ w.linked \in BOOLEAN /\ w.up \subseteq Backends
        /\ \A p, q \in w.bare : p[2] = q[2] => p = q
        /\ \A p \in w.bare : p[2] \notin Plain /\ (w.fig => p[2] \notin FigRead \cup FigWrite)

VARIABLES
    world,  \* the tables: tools exposed by their bare name, figures on or off, the policy
            \* received or not, declared backends that are shut, whether the person has
            \* registered a token, backends that are there
    pc,     \* idle, in (past the gate) or done
    cred,   \* the credential
    hdr,    \* the headers forwarded
    asked,  \* what is asked for
    out     \* what became of it
callVars == <<world, pc, cred, hdr, asked, out>>

-----------------------------------------------------------------------------
(* The gate                                                                *)

(* Mutant: the service's requests keep the header of a purpose.            *)
Mut_Dropped(c) == IF c.kind = "gw" THEN {} ELSE {"user", "purpose"}

(* Headers of the client that are thrown away.                             *)
Dropped(c) == {"purpose"} \cup (IF c.kind = "pat" THEN {"user"} ELSE {})

(* Mutant: only the purpose makes a panel.                                 *)
Mut_IsPanel(c) == "purpose" \in c.marks

(* _panel_scope: any mark makes a panel, and then all of it has to fit.    *)
IsPanel(c) == c.marks # {}
PanelFits(c) == c.marks = Marks /\ c.fits

Kept(c) == c.added \ Dropped(c)

Forwarded(c) ==
    [user |-> IF "user" \in Kept(c) THEN "other" ELSE IF c.email THEN "own" ELSE NONE,
     groups |-> IF c.kind = "gw" THEN c.groups ELSE GateGroups(c.groups, c.ent),
     procedure |-> "purpose" \in Kept(c) \/ c.procedure,
     reader |-> c.kind = "pat" /\ c.reader,
     panel |-> IF IsPanel(c) THEN c.app ELSE NONE]

-----------------------------------------------------------------------------
(* A call                                                                  *)

LocalTools == Plain \cup (IF world.fig THEN FigRead \cup FigWrite ELSE {})
IsLocal(n) == n[1] = NONE /\ n[2] \in LocalTools

(* The tool a name stands for: by route, or else by alias_route.           *)
Tool(n) ==
    IF n \in Tools THEN n
    ELSE IF \E p \in world.bare : p[2] = n[2] THEN CHOOSE p \in world.bare : p[2] = n[2]
    ELSE NONE

(* The original name, or the name given if nobody has it.                  *)
Original(n) == IF Tool(n) = NONE THEN n[2] ELSE Tool(n)[2]

PanelDenies(h, n) ==
    /\ h.panel # NONE
    /\ \/ IsLocal(n) \/ Tool(n) = NONE \/ Tool(n)[1] # h.panel
       \/ Original(n) \in Exact \cup Tasks

(* Mutant: what is refused is recognised by the name given.                *)
Mut_Destructive(h, n) ==
    n[1] = NONE /\ (n[2] \in Front \/ n[2] \in Back \/ (n[2] \in Exact /\ ~h.procedure))

(* What invoke_tool does not call: recognised by its original name, so by  *)
(* any name; the list of exact names does not bind procedures.             *)
Destructive(h, n) ==
    Original(n) \in Front \cup Back \/ (Original(n) \in Exact /\ ~h.procedure)

(* _readonly_denial.                                                       *)
ReaderDenies(n, method) ==
    IF IsLocal(n) THEN
        \/ n[2] \in LocalWrite \cup FigWrite
        \/ n[2] = "rest_call" /\ method # "GET"
    ELSE Tool(n) # NONE /\ Tool(n) \notin Reads

(* Mutant: without a token of their own people are served by the service.  *)
Mut_AsWhom(h, k) ==
    IF k \in Delegated THEN IF h.user = NONE THEN "service" ELSE h.user
    ELSE IF k \in Connected THEN
        IF h.user = NONE THEN IF k \in Declared THEN NONE ELSE "service"
        ELSE IF world.linked THEN h.user ELSE "service"
    ELSE IF k \in Identity /\ (h.user # NONE \/ h.groups # {}) THEN "identity" ELSE "service"

(* The account a backend is called by, or NONE.                            *)
AsWhom(h, k) ==
    IF k \in Delegated THEN IF h.user = NONE THEN "service" ELSE h.user
    ELSE IF k \in Connected THEN
        IF h.user = NONE THEN IF k \in Declared THEN NONE ELSE "service"
        ELSE IF world.linked THEN h.user ELSE NONE
    ELSE IF k \in Identity /\ (h.user # NONE \/ h.groups # {}) THEN "identity" ELSE "service"

No(why) == [v |-> "no", why |-> why]
Yes(what, as) == [v |-> "yes", what |-> what, as |-> as]

OpenTo(h, k) == ~Denied(world.ready, world.shut, k, h.groups)

AllowedMethods(s) == IF s \in Opened \cup PerUser THEN Methods ELSE {"GET"}

(* By whom a site is called (credential_mode).                             *)
SiteAs(s, user) ==
    IF s \in PerUser THEN user ELSE IF s \in Inject THEN "service" ELSE "nobody"

(* _rest_call.                                                             *)
RestCall(h, s, method) ==
    IF ~OpenTo(h, s) THEN No("forbidden")
    ELSE IF method \notin AllowedMethods(s) THEN No("method")
    ELSE IF SiteAs(s, h.user) = NONE THEN No("nameless")
    ELSE Yes(<<s, method>>, SiteAs(s, h.user))

(* From the name on: the tool of the gateway, or of a backend.             *)
Dispatch(h, n, s, method) ==
    IF IsLocal(n) THEN
        IF n[2] = "rest_call" THEN RestCall(h, s, method) ELSE Yes(n, "gateway")
    ELSE IF Tool(n) = NONE THEN No("unknown")
    ELSE IF ~OpenTo(h, Tool(n)[1]) THEN No("forbidden")
    ELSE IF Tool(n)[1] \notin world.up THEN No("gone")
    ELSE IF AsWhom(h, Tool(n)[1]) = NONE THEN No("token")
    ELSE Yes(Tool(n), AsWhom(h, Tool(n)[1]))

(* Mutant: a reader's call is looked at before invoke_tool is unwrapped.   *)
Mut_Call(h, n, invoked, s, method) ==
    LET given == IF invoked THEN <<NONE, "invoke_tool">> ELSE n
    IN  IF PanelDenies(h, given) THEN No("panel")
        ELSE IF h.reader /\ ReaderDenies(given, method) THEN No("reader")
        ELSE IF invoked /\ (n = given \/ Destructive(h, n)) THEN No("invoke")
        ELSE Dispatch(h, n, s, method)

(* _call_tool_body: n is the name given, or the one inside of invoke_tool. *)
Call(h, n, invoked, s, method) ==
    LET given == IF invoked THEN <<NONE, "invoke_tool">> ELSE n
    IN  IF PanelDenies(h, given) THEN No("panel")
        ELSE IF invoked /\ (n = given \/ Destructive(h, n)) THEN No("invoke")
        ELSE IF h.reader /\ ReaderDenies(n, method) THEN No("reader")
        ELSE Dispatch(h, n, s, method)

(* _read_ui_resource: nobody without a token of a declared backend.        *)
Resource(h, k) ==
    IF ~OpenTo(h, k) \/ (h.panel # NONE /\ h.panel # k) \/ k \notin world.up THEN No("missing")
    ELSE IF k \in Delegated \cup Connected /\ h.user # NONE
         THEN IF AsWhom(h, k) = NONE THEN No("token") ELSE Yes(k, h.user)
    ELSE IF k \in Declared THEN No("nameless")
    ELSE Yes(k, "service")

(* The name a tool is listed by: the bare one, or one with its backend.    *)
ListedAs(p) == IF p \in world.bare THEN <<NONE, p[2]>> ELSE p

(* Apps switched off and views are for people and their own clients.       *)
Personal(c) == c.kind = "pat" /\ ~c.procedure /\ c.marks = {}

(* Mutant: the list is not cut to what is open to the caller.              *)
Mut_VisibleTools(h, muted) == {p \in Tools : p[1] \notin muted \cup Staging}

VisibleTools(h, muted) == {p \in Tools : OpenTo(h, p[1]) /\ p[1] \notin muted \cup Staging}

(* _list_tools: a panel sees what it may call, and a view only leaves out. *)
ListedTools(h, muted, view) ==
    LET own == {<<NONE, t>> : t \in LocalTools}
        vis == VisibleTools(h, muted)
    IN  IF h.panel # NONE THEN {n \in own \cup {ListedAs(p) : p \in vis} : ~PanelDenies(h, n)}
        ELSE CASE view = "full" -> own \cup {ListedAs(p) : p \in vis}
               [] view = "light" -> {<<NONE, "search_tools">>, <<NONE, "invoke_tool">>}
               [] view = "bundle" -> own \cup
                    {ListedAs(p) : p \in {q \in vis : q[1] \notin Siblings /\ q \in Core \cup Area}}

(* _list_resources.                                                        *)
ListedResources(h, muted) ==
    {k \in Backends : OpenTo(h, k) /\ k \notin muted /\ (h.panel = NONE \/ h.panel = k)}

(* RestProxy.handle.                                                       *)
Bridge(c, s, method) ==
    LET user == IF c.email THEN "own" ELSE NONE
    IN  IF method \notin AllowedMethods(s) THEN No("method")
        ELSE IF c.reader /\ method # "GET" THEN No("reader")
        ELSE IF Denied(world.ready, world.shut, s, RestGroups(c.groups, c.ent)) THEN No("forbidden")
        ELSE IF SiteAs(s, user) = NONE THEN No("nameless")
        ELSE Yes(<<s, method>>, SiteAs(s, user))

-----------------------------------------------------------------------------
None == [how |-> "none", name |-> NONE, site |-> NONE, method |-> "GET"]

CallInit ==
    /\ world \in Worlds /\ pc = "idle"
    /\ cred = NONE /\ hdr = NONE /\ asked = None /\ out = NONE

(* A panel that does not fit is told 401.                                  *)
Arrives(c) ==
    /\ pc = "idle"
    /\ (c.kind = "pat" /\ IsPanel(c)) => PanelFits(c)
    /\ pc' = "in" /\ cred' = c /\ hdr' = Forwarded(c)
    /\ UNCHANGED <<world, asked, out>>

Answered(how, n, s, m, o) ==
    /\ pc' = "done" /\ out' = o
    /\ asked' = [how |-> how, name |-> n, site |-> s, method |-> m]
    /\ UNCHANGED <<world, cred, hdr>>

CallsTool(n, how) ==
    /\ pc = "in" /\ n # <<NONE, "rest_call">> /\ (how = "direct" => n # <<NONE, "invoke_tool">>)
    /\ Answered(how, n, NONE, "GET", Call(hdr, n, how = "invoke", NONE, "GET"))

CallsRest(s, m, how) ==
    /\ pc = "in"
    /\ Answered(how, <<NONE, "rest_call">>, s, m, Call(hdr, <<NONE, "rest_call">>, how = "invoke", s, m))

ReadsResource(k) ==
    pc = "in" /\ Answered("resource", NONE, k, "GET", Resource(hdr, k))

(* tools/list and resources/list: the person has switched off muted.       *)
Lists(muted, view) ==
    LET off == IF Personal(cred) THEN muted ELSE {}
        v == IF Personal(cred) THEN view ELSE "full"
    IN  /\ pc = "in" /\ view \in {"full", "light", "bundle"}
        /\ Answered("list", NONE, NONE, "GET",
                    [v |-> "list", tools |-> ListedTools(hdr, off, v), res |-> ListedResources(hdr, off)])

(* A panel's token is not issued for sites.                                *)
Bridges(c, s, m) ==
    /\ pc = "idle" /\ c.kind = "pat" /\ c.marks = {}
    /\ pc' = "done" /\ cred' = c /\ hdr' = Forwarded(c) /\ out' = Bridge(c, s, m)
    /\ asked' = [how |-> "bridge", name |-> NONE, site |-> s, method |-> m]
    /\ UNCHANGED world

Done ==
    /\ pc = "done" /\ pc' = "idle"
    /\ cred' = NONE /\ hdr' = NONE /\ asked' = None /\ out' = NONE
    /\ UNCHANGED world

CallNext ==
    \/ \E c \in Creds : Arrives(c)
    \/ \E n \in Names, how \in {"direct", "invoke"} : CallsTool(n, how)
    \/ \E s \in Sites, m \in Methods, how \in {"direct", "invoke"} : CallsRest(s, m, how)
    \/ \E k \in Backends : ReadsResource(k)
    \/ \E muted \in {{}} \cup {{k} : k \in Backends}, v \in {"full", "light", "bundle"} : Lists(muted, v)
    \/ \E c \in Creds, s \in Sites, m \in Methods : Bridges(c, s, m)
    \/ Done

CallSpec == CallInit /\ [][CallNext]_callVars

-----------------------------------------------------------------------------
(* Properties                                                              *)

Reached == pc = "done" /\ out.v = "yes"
ReachedTool ==
    Reached /\ asked.how \in {"direct", "invoke"} /\ asked.site = NONE /\ out.what \in Tools

(* A narrowed token stays narrow.  With any mark of a panel it reaches the *)
(* tools and the resources of one app only, none of the gateway's own      *)
(* tools and none that may not be undone (_panel_scope, _panel_denial,     *)
(* _read_ui_resource); one for reading never comes to something that       *)
(* writes (_readonly_denial, is_read_only): under no name or alias, not    *)
(* through invoke_tool, rest_call or the bridge, and not by a name that is *)
(* the gateway's own at other times.                                       *)
NarrowStaysNarrow ==
    Reached =>
        /\ cred.marks # {} =>
            \/ asked.how = "resource" /\ out.what = cred.app
            \/ ReachedTool /\ out.what[1] = cred.app /\ out.what[2] \notin Exact \cup Tasks
        /\ cred.kind = "pat" /\ cred.reader =>
            /\ asked.method = "GET"
            /\ ReachedTool => out.what \in Reads
            /\ out.as = "gateway" => out.what[2] \in LocalRead \cup FigRead

(* Through invoke_tool nobody comes to a destructive tool under any of its *)
(* names, and only a procedure the portal vouches for to one of the exact  *)
(* list: not by what a client writes into its headers (_call_tool_body,    *)
(* _bearer_gate).                                                          *)
NoDetour ==
    ReachedTool /\ asked.how = "invoke" =>
        /\ out.what[2] \notin Front \cup Back
        /\ out.what[2] \in Exact => cred.kind = "pat" /\ cred.procedure

(* A call with a person's identity reaches a backend of people in that     *)
(* person's name or not at all, never by the account of the service, which *)
(* a declared backend never gets; nobody speaks for someone else with a    *)
(* token; and what is not done in a person's name writes to a site only if *)
(* the configuration opens it (_call_tool_body, credential_mode,           *)
(* allowed_methods).                                                       *)
NobodyIsBorrowed ==
    Reached =>
        /\ out.as = "other" => cred.kind = "gw"
        /\ \A k \in Backends :
            (ReachedTool /\ out.what[1] = k) \/ (asked.how = "resource" /\ out.what = k) =>
                /\ k \in Delegated \cup Connected /\ hdr.user # NONE => out.as = hdr.user
                /\ k \in Declared => out.as # "service"
        /\ (asked.site \in Sites /\ asked.method # "GET" /\ out.as \in {"service", "nobody"}) =>
                asked.site \in Opened

(* What a list shows is open: called by the name in the list, directly or  *)
(* through invoke_tool, it is refused neither as unknown nor as forbidden, *)
(* to a panel nothing of the list is refused as a panel's, and no resource *)
(* of the list is denied (_list_tools, _listed_tools, _list_resources).    *)
ListedIsOpen ==
    (pc = "done" /\ out.v = "list") =>
        /\ \A n \in out.tools, invoked \in BOOLEAN :
            LET r == Call(hdr, n, invoked, NONE, "GET")
            IN  \/ r.v = "yes" \/ IsLocal(n) \/ (invoked /\ hdr.panel # NONE)
                \/ r.why \notin {"forbidden", "unknown", "panel"}
        /\ \A k \in out.res \cap world.up :
            LET r == Resource(hdr, k) IN r.v = "yes" \/ r.why # "missing"

(* The bridge and rest_call come to the same end for the same token, site  *)
(* and method - whichever of two refusals comes first (RestProxy.handle    *)
(* and _bearer_gate with _rest_call).                                      *)
SameRoad ==
    pc = "done" /\ asked.how = "bridge" =>
        LET other == Call(Forwarded(cred), <<NONE, "rest_call">>, FALSE, asked.site, asked.method)
        IN  out.v = "yes" \/ other.v = "yes" => out = other
=============================================================================
