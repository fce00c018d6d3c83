----------------------------- MODULE MCCallRules -----------------------------
(* A backend called in the person's name (sim), one the portal declares    *)
(* (ext), one that is built in (rep) and one that is told who calls (hub), *)
(* which is a site as well; sites in the person's name (jobs), with a key  *)
(* (arc) and with a key and methods (wiki).                                *)
EXTENDS CallRules

CONSTANTS sim, ext, rep, hub, jobs, arc, wiki

MCTools == {<<sim, "list">>, <<sim, "trash_report">>, <<ext, "list">>, <<ext, "cancel_run">>,
            <<ext, "review_task_next">>, <<rep, "figure_list">>, <<rep, "add">>, <<hub, "fan_control">>}
MCReads == {<<sim, "list">>, <<ext, "list">>}
MCCore == {<<sim, "list">>}
MCArea == {<<ext, "list">>, <<hub, "fan_control">>}

Credentials(kinds, groups, ents, emails, procedures, marks, fits, apps, added) ==
    [kind : kinds, groups : groups, ent : ents, email : emails, reader : BOOLEAN,
     procedure : procedures, marks : marks, fits : fits, app : apps, added : added]

Service == {c \in Credentials({"gw"}, {{"service"}, {"login"}, {"login", "key", "admin"}}, {NONE},
                {FALSE}, {FALSE}, {{}}, {TRUE}, {sim}, SUBSET {"purpose", "user"}) : ~c.reader}
People == Credentials({"pat"}, {{"login"}, Groups}, {NONE, {}, {"key"}, Rights},
                BOOLEAN, BOOLEAN, {{}}, {TRUE}, {sim}, {{}, {"purpose", "user"}})
Panels == Credentials({"pat"}, {{"login", "key"}}, {NONE, Rights}, {TRUE}, {FALSE},
                SUBSET Marks \ {{}}, BOOLEAN, {sim, ext}, {{}})
MCCreds == Service \cup People \cup Panels

States == {<<TRUE, {}, TRUE, Backends>>, <<FALSE, {}, TRUE, Backends>>, <<TRUE, {ext}, TRUE, Backends>>,
           <<TRUE, {}, FALSE, Backends>>, <<TRUE, {}, TRUE, {sim, rep}>>}
Bare(f) == {{<<sim, "list">>, <<sim, "trash_report">>, <<ext, "cancel_run">>},
            {<<ext, "list">>, <<ext, "review_task_next">>, <<hub, "fan_control">>}
                \cup IF f THEN {} ELSE {<<rep, "figure_list">>}}
MCWorlds == {[fig |-> f, bare |-> b, ready |-> s[1], shut |-> s[2], linked |-> s[3], up |-> s[4]] :
                f \in {TRUE}, b \in Bare(TRUE), s \in States}
            \cup {[fig |-> f, bare |-> b, ready |-> s[1], shut |-> s[2], linked |-> s[3], up |-> s[4]] :
                f \in {FALSE}, b \in Bare(FALSE), s \in States}
=============================================================================
